---- MODULE Spec2Model ----
(***************************************************************************)
(* Model of update_articles.py: one run of main() fetches the first entry  *)
(* of an RSS feed, writes an article page under news/ and patches          *)
(* index.html.  Text is modelled as Python holds it, a sequence of Unicode *)
(* code points, and the file system as a set of directories and a map from *)
(* file paths to file contents.                                            *)
(***************************************************************************)
EXTENDS Integers, Sequences, FiniteSets, TLC

VARIABLES
    fs,      \* the file system: [dirs, files]
    today,   \* the day of the model the wall clock is in
    out,     \* what the last run of main() printed (empty before any run)
    exc,     \* the exception that ended the last run ("none" if it returned)
    feed,    \* history: the feed the last run of main() parsed
    lastArticle,   \* history: the article the last run fetched, or None
    lastFilename,  \* history: the name the last run gave its page, or None
    pre,     \* history: the file system when the last run started
    linked,  \* history: the list entries the runs added to index.html, in order
    runs     \* number of runs of main() so far

vars == <<fs, today, out, exc, feed, lastArticle, lastFilename, pre, linked, runs>>

----------------------------------------------------------------------------
(* Evaluation *)

\* F applied to the value of v: v is evaluated once, whatever the number of
\* times F uses its argument.
Bind(v, F(_)) == CHOOSE r \in {F(x) : x \in {v}} : TRUE

Min(a, b) == IF a < b THEN a ELSE b

Smallest(S) == CHOOSE i \in S : \A j \in S : i <= j

Largest(S) == 0 - Smallest({0 - i : i \in S})

\* the members of a set of positions in ascending order
Sorted(S) ==
    Bind({<<Cardinality({j \in S : j <= i}), i>> : i \in S}, LAMBDA ranked :
    Bind(Cardinality(S), LAMBDA n :
        SubSeq([k \in 1..n |-> (CHOOSE r \in ranked : r[1] = k)[2]], 1, n)))

\* the numbers the rows <<lo, hi>> of a table span
Spanned(rows) == UNION {r[1]..r[2] : r \in rows}

----------------------------------------------------------------------------
(* Text: a Python str is the sequence of its code points.  Str gives the   *)
(* text of a literal written in ASCII or Latin-1.                          *)

\* the ASCII characters from the space to the underscore, and from "a" on
AsciiUpper ==
    " !\"#$%&'()*+,-./0123456789:;<=>?@ABCDEFGHIJKLMNOPQRSTUVWXYZ[\\]^_"

AsciiLower == "abcdefghijklmnopqrstuvwxyz{|}~"

\* the letters of Latin-1, from U+00C0 on
Latin1 ==
    "ÀÁÂÃÄÅÆÇÈÉÊËÌÍÎÏÐÑÒÓÔÕÖ×ØÙÚÛÜÝÞßàáâãäåæçèéêëìíîïðñòóôõö÷øùúûüýþÿ"

\* ord(c) for the characters a literal can hold
CodeOf ==
    LET Codes(s, before) ==
            [c \in {SubSeq(s, i, i) : i \in 1..Len(s)} |->
                before + (CHOOSE i \in 1..Len(s) : SubSeq(s, i, i) = c)]
    IN  Codes(AsciiUpper, 31) @@ Codes(AsciiLower, 96) @@ Codes(Latin1, 191)
            @@ ("\t" :> 9) @@ ("\n" :> 10) @@ ("\f" :> 12) @@ ("\r" :> 13)

Code(c) == CodeOf[c]

\* the text of the literal s
Str(s) == SubSeq([i \in 1..Len(s) |-> CodeOf[SubSeq(s, i, i)]], 1, Len(s))

Empty == <<>>

\* the characters the operations below look for
Ampersand == Code("&")

Semicolon == Code(";")

NumberSign == Code("#")

Comma == Code(",")

SlashChar == Code("/")

LineFeed == Code("\n")

CarriageReturn == Code("\r")

DigitZero == Code("0")

SmallA == Code("a")

CapitalA == Code("A")

\* what follows the number sign of a hexadecimal reference
HexMarks == {Code("x"), Code("X")}

----------------------------------------------------------------------------
(* Python str operations *)

\* s[:n]
Take(s, n) == SubSeq(s, 1, Min(n, Len(s)))

\* s[n:]
Drop(s, n) == SubSeq(s, Min(n, Len(s)) + 1, Len(s))

\* s.startswith(m, i-1), 1-based
StartsAt(s, i, m) ==
    /\ i + Len(m) - 1 <= Len(s)
    /\ SubSeq(s, i, i + Len(m) - 1) = m

\* m in s
Contains(s, m) == \E i \in 1..(Len(s) - Len(m) + 1) : StartsAt(s, i, m)

\* the positions of s at which m starts
Occurrences(s, m) == {i \in 1..(Len(s) - Len(m) + 1) : StartsAt(s, i, m)}

\* s.find(m) + 1: the first position of m in s, 0 when m is not in s
Find(s, m) ==
    Bind(Occurrences(s, m), LAMBDA at : IF at = {} THEN 0 ELSE Smallest(at))

\* s.rfind(m) + 1
RFind(s, m) ==
    Bind(Occurrences(s, m), LAMBDA at : IF at = {} THEN 0 ELSE Largest(at))

\* sep.join(parts[lo..hi]), computed half by half
RECURSIVE JoinRange(_, _, _, _)
JoinRange(sep, parts, lo, hi) ==
    IF lo > hi THEN Empty
    ELSE IF lo = hi THEN parts[lo]
    ELSE Bind((lo + hi) \div 2, LAMBDA mid :
            JoinRange(sep, parts, lo, mid) \o sep \o JoinRange(sep, parts, mid + 1, hi))

\* sep.join(parts)
join(sep, parts) == JoinRange(sep, parts, 1, Len(parts))

\* "".join(parts), what file.writelines(parts) writes
Concat(parts) == JoinRange(Empty, parts, 1, Len(parts))

\* The simple lower-case mappings of the Unicode database: each row
\* <<lo, hi, step, delta>> maps the code points lo, lo + step, ..., hi to
\* themselves plus delta.
ToLowerRows ==
    { <<65, 90, 1, 32>>, <<192, 214, 1, 32>>, <<216, 222, 1, 32>>, <<256, 302,
      2, 1>>, <<306, 310, 2, 1>>, <<313, 327, 2, 1>>, <<330, 374, 2, 1>>,
      <<376, 376, 1, -121>>, <<377, 381, 2, 1>>, <<385, 385, 1, 210>>, <<386,
      388, 2, 1>>, <<390, 390, 1, 206>>, <<391, 391, 1, 1>>, <<393, 394, 1,
      205>>, <<395, 395, 1, 1>>, <<398, 398, 1, 79>>, <<399, 399, 1, 202>>,
      <<400, 400, 1, 203>>, <<401, 401, 1, 1>>, <<403, 403, 1, 205>>, <<404,
      404, 1, 207>>, <<406, 406, 1, 211>>, <<407, 407, 1, 209>>, <<408, 408,
      1, 1>>, <<412, 412, 1, 211>>, <<413, 413, 1, 213>>, <<415, 415, 1,
      214>>, <<416, 420, 2, 1>>, <<422, 422, 1, 218>>, <<423, 423, 1, 1>>,
      <<425, 425, 1, 218>>, <<428, 428, 1, 1>>, <<430, 430, 1, 218>>, <<431,
      431, 1, 1>>, <<433, 434, 1, 217>>, <<435, 437, 2, 1>>, <<439, 439, 1,
      219>>, <<440, 440, 1, 1>>, <<444, 444, 1, 1>>, <<452, 452, 1, 2>>,
      <<453, 453, 1, 1>>, <<455, 455, 1, 2>>, <<456, 456, 1, 1>>, <<458, 458,
      1, 2>>, <<459, 475, 2, 1>>, <<478, 494, 2, 1>>, <<497, 497, 1, 2>>,
      <<498, 500, 2, 1>>, <<502, 502, 1, -97>>, <<503, 503, 1, -56>>, <<504,
      542, 2, 1>>, <<544, 544, 1, -130>>, <<546, 562, 2, 1>>, <<570, 570, 1,
      10795>>, <<571, 571, 1, 1>>, <<573, 573, 1, -163>>, <<574, 574, 1,
      10792>>, <<577, 577, 1, 1>>, <<579, 579, 1, -195>>, <<580, 580, 1, 69>>,
      <<581, 581, 1, 71>>, <<582, 590, 2, 1>>, <<880, 882, 2, 1>>, <<886, 886,
      1, 1>>, <<895, 895, 1, 116>>, <<902, 902, 1, 38>>, <<904, 906, 1, 37>>,
      <<908, 908, 1, 64>>, <<910, 911, 1, 63>>, <<913, 929, 1, 32>>, <<932,
      939, 1, 32>>, <<975, 975, 1, 8>>, <<984, 1006, 2, 1>>, <<1012, 1012, 1,
      -60>>, <<1015, 1015, 1, 1>>, <<1017, 1017, 1, -7>>, <<1018, 1018, 1,
      1>>, <<1021, 1023, 1, -130>>, <<1024, 1039, 1, 80>>, <<1040, 1071, 1,
      32>>, <<1120, 1152, 2, 1>>, <<1162, 1214, 2, 1>>, <<1216, 1216, 1, 15>>,
      <<1217, 1229, 2, 1>>, <<1232, 1326, 2, 1>>, <<1329, 1366, 1, 48>>,
      <<4256, 4293, 1, 7264>>, <<4295, 4295, 1, 7264>>, <<4301, 4301, 1,
      7264>>, <<5024, 5103, 1, 38864>>, <<5104, 5109, 1, 8>>, <<7312, 7354, 1,
      -3008>>, <<7357, 7359, 1, -3008>>, <<7680, 7828, 2, 1>>, <<7838, 7838,
      1, -7615>>, <<7840, 7934, 2, 1>>, <<7944, 7951, 1, -8>>, <<7960, 7965,
      1, -8>>, <<7976, 7983, 1, -8>>, <<7992, 7999, 1, -8>>, <<8008, 8013, 1,
      -8>>, <<8025, 8031, 2, -8>>, <<8040, 8047, 1, -8>>, <<8072, 8079, 1,
      -8>>, <<8088, 8095, 1, -8>>, <<8104, 8111, 1, -8>>, <<8120, 8121, 1,
      -8>>, <<8122, 8123, 1, -74>>, <<8124, 8124, 1, -9>>, <<8136, 8139, 1,
      -86>>, <<8140, 8140, 1, -9>>, <<8152, 8153, 1, -8>>, <<8154, 8155, 1,
      -100>>, <<8168, 8169, 1, -8>>, <<8170, 8171, 1, -112>>, <<8172, 8172, 1,
      -7>>, <<8184, 8185, 1, -128>>, <<8186, 8187, 1, -126>>, <<8188, 8188, 1,
      -9>>, <<8486, 8486, 1, -7517>>, <<8490, 8490, 1, -8383>>, <<8491, 8491,
      1, -8262>>, <<8498, 8498, 1, 28>>, <<8544, 8559, 1, 16>>, <<8579, 8579,
      1, 1>>, <<9398, 9423, 1, 26>>, <<11264, 11311, 1, 48>>, <<11360, 11360,
      1, 1>>, <<11362, 11362, 1, -10743>>, <<11363, 11363, 1, -3814>>,
      <<11364, 11364, 1, -10727>>, <<11367, 11371, 2, 1>>, <<11373, 11373, 1,
      -10780>>, <<11374, 11374, 1, -10749>>, <<11375, 11375, 1, -10783>>,
      <<11376, 11376, 1, -10782>>, <<11378, 11378, 1, 1>>, <<11381, 11381, 1,
      1>>, <<11390, 11391, 1, -10815>>, <<11392, 11490, 2, 1>>, <<11499,
      11501, 2, 1>>, <<11506, 11506, 1, 1>>, <<42560, 42604, 2, 1>>, <<42624,
      42650, 2, 1>>, <<42786, 42798, 2, 1>>, <<42802, 42862, 2, 1>>, <<42873,
      42875, 2, 1>>, <<42877, 42877, 1, -35332>>, <<42878, 42886, 2, 1>>,
      <<42891, 42891, 1, 1>>, <<42893, 42893, 1, -42280>>, <<42896, 42898, 2,
      1>>, <<42902, 42920, 2, 1>>, <<42922, 42922, 1, -42308>>, <<42923,
      42923, 1, -42319>>, <<42924, 42924, 1, -42315>>, <<42925, 42925, 1,
      -42305>>, <<42926, 42926, 1, -42308>>, <<42928, 42928, 1, -42258>>,
      <<42929, 42929, 1, -42282>>, <<42930, 42930, 1, -42261>>, <<42931,
      42931, 1, 928>>, <<42932, 42946, 2, 1>>, <<42948, 42948, 1, -48>>,
      <<42949, 42949, 1, -42307>>, <<42950, 42950, 1, -35384>>, <<42951,
      42953, 2, 1>>, <<42960, 42960, 1, 1>>, <<42966, 42968, 2, 1>>, <<42997,
      42997, 1, 1>>, <<65313, 65338, 1, 32>>, <<66560, 66599, 1, 40>>,
      <<66736, 66771, 1, 40>>, <<66928, 66938, 1, 39>>, <<66940, 66954, 1,
      39>>, <<66956, 66962, 1, 39>>, <<66964, 66965, 1, 39>>, <<68736, 68786,
      1, 64>>, <<71840, 71871, 1, 32>>, <<93760, 93791, 1, 32>>, <<125184,
      125217, 1, 34>> }

ToLowerSimple ==
    [c \in UNION {{r[1] + k * r[3] : k \in 0..((r[2] - r[1]) \div r[3])} :
                    r \in ToLowerRows} |->
        c + (CHOOSE r \in ToLowerRows :
                r[1] <= c /\ c <= r[2] /\ (c - r[1]) % r[3] = 0)[4]]

\* the code points with a simple lower-case mapping
HasLower == DOMAIN ToLowerSimple

\* the cased code points that are not case-ignorable, as rows <<lo, hi>>
CasedRows ==
    { <<65, 90>>, <<97, 122>>, <<170, 170>>, <<181, 181>>, <<186, 186>>,
      <<192, 214>>, <<216, 246>>, <<248, 442>>, <<444, 447>>, <<452, 659>>,
      <<661, 687>>, <<880, 883>>, <<886, 887>>, <<891, 893>>, <<895, 895>>,
      <<902, 902>>, <<904, 906>>, <<908, 908>>, <<910, 929>>, <<931, 1013>>,
      <<1015, 1153>>, <<1162, 1327>>, <<1329, 1366>>, <<1376, 1416>>, <<4256,
      4293>>, <<4295, 4295>>, <<4301, 4301>>, <<4304, 4346>>, <<4349, 4351>>,
      <<5024, 5109>>, <<5112, 5117>>, <<7296, 7304>>, <<7312, 7354>>, <<7357,
      7359>>, <<7424, 7467>>, <<7531, 7543>>, <<7545, 7578>>, <<7680, 7957>>,
      <<7960, 7965>>, <<7968, 8005>>, <<8008, 8013>>, <<8016, 8023>>, <<8025,
      8025>>, <<8027, 8027>>, <<8029, 8029>>, <<8031, 8061>>, <<8064, 8116>>,
      <<8118, 8124>>, <<8126, 8126>>, <<8130, 8132>>, <<8134, 8140>>, <<8144,
      8147>>, <<8150, 8155>>, <<8160, 8172>>, <<8178, 8180>>, <<8182, 8188>>,
      <<8450, 8450>>, <<8455, 8455>>, <<8458, 8467>>, <<8469, 8469>>, <<8473,
      8477>>, <<8484, 8484>>, <<8486, 8486>>, <<8488, 8488>>, <<8490, 8493>>,
      <<8495, 8500>>, <<8505, 8505>>, <<8508, 8511>>, <<8517, 8521>>, <<8526,
      8526>>, <<8544, 8575>>, <<8579, 8580>>, <<9398, 9449>>, <<11264,
      11387>>, <<11390, 11492>>, <<11499, 11502>>, <<11506, 11507>>, <<11520,
      11557>>, <<11559, 11559>>, <<11565, 11565>>, <<42560, 42605>>, <<42624,
      42651>>, <<42786, 42863>>, <<42865, 42887>>, <<42891, 42894>>, <<42896,
      42954>>, <<42960, 42961>>, <<42963, 42963>>, <<42965, 42969>>, <<42997,
      42998>>, <<43002, 43002>>, <<43824, 43866>>, <<43872, 43880>>, <<43888,
      43967>>, <<64256, 64262>>, <<64275, 64279>>, <<65313, 65338>>, <<65345,
      65370>>, <<66560, 66639>>, <<66736, 66771>>, <<66776, 66811>>, <<66928,
      66938>>, <<66940, 66954>>, <<66956, 66962>>, <<66964, 66965>>, <<66967,
      66977>>, <<66979, 66993>>, <<66995, 67001>>, <<67003, 67004>>, <<68736,
      68786>>, <<68800, 68850>>, <<71840, 71903>>, <<93760, 93823>>, <<119808,
      119892>>, <<119894, 119964>>, <<119966, 119967>>, <<119970, 119970>>,
      <<119973, 119974>>, <<119977, 119980>>, <<119982, 119993>>, <<119995,
      119995>>, <<119997, 120003>>, <<120005, 120069>>, <<120071, 120074>>,
      <<120077, 120084>>, <<120086, 120092>>, <<120094, 120121>>, <<120123,
      120126>>, <<120128, 120132>>, <<120134, 120134>>, <<120138, 120144>>,
      <<120146, 120485>>, <<120488, 120512>>, <<120514, 120538>>, <<120540,
      120570>>, <<120572, 120596>>, <<120598, 120628>>, <<120630, 120654>>,
      <<120656, 120686>>, <<120688, 120712>>, <<120714, 120744>>, <<120746,
      120770>>, <<120772, 120779>>, <<122624, 122633>>, <<122635, 122654>>,
      <<125184, 125251>>, <<127280, 127305>>, <<127312, 127337>>, <<127344,
      127369>> }

Cased == Spanned(CasedRows)

\* the case-ignorable code points, as rows <<lo, hi>>
CaseIgnorableRows ==
    { <<39, 39>>, <<46, 46>>, <<58, 58>>, <<94, 94>>, <<96, 96>>, <<168,
      168>>, <<173, 173>>, <<175, 175>>, <<180, 180>>, <<183, 184>>, <<688,
      879>>, <<884, 885>>, <<890, 890>>, <<900, 901>>, <<903, 903>>, <<1155,
      1161>>, <<1369, 1369>>, <<1375, 1375>>, <<1425, 1469>>, <<1471, 1471>>,
      <<1473, 1474>>, <<1476, 1477>>, <<1479, 1479>>, <<1524, 1524>>, <<1536,
      1541>>, <<1552, 1562>>, <<1564, 1564>>, <<1600, 1600>>, <<1611, 1631>>,
      <<1648, 1648>>, <<1750, 1757>>, <<1759, 1768>>, <<1770, 1773>>, <<1807,
      1807>>, <<1809, 1809>>, <<1840, 1866>>, <<1958, 1968>>, <<2027, 2037>>,
      <<2042, 2042>>, <<2045, 2045>>, <<2070, 2093>>, <<2137, 2139>>, <<2184,
      2184>>, <<2192, 2193>>, <<2200, 2207>>, <<2249, 2306>>, <<2362, 2362>>,
      <<2364, 2364>>, <<2369, 2376>>, <<2381, 2381>>, <<2385, 2391>>, <<2402,
      2403>>, <<2417, 2417>>, <<2433, 2433>>, <<2492, 2492>>, <<2497, 2500>>,
      <<2509, 2509>>, <<2530, 2531>>, <<2558, 2558>>, <<2561, 2562>>, <<2620,
      2620>>, <<2625, 2626>>, <<2631, 2632>>, <<2635, 2637>>, <<2641, 2641>>,
      <<2672, 2673>>, <<2677, 2677>>, <<2689, 2690>>, <<2748, 2748>>, <<2753,
      2757>>, <<2759, 2760>>, <<2765, 2765>>, <<2786, 2787>>, <<2810, 2815>>,
      <<2817, 2817>>, <<2876, 2876>>, <<2879, 2879>>, <<2881, 2884>>, <<2893,
      2893>>, <<2901, 2902>>, <<2914, 2915>>, <<2946, 2946>>, <<3008, 3008>>,
      <<3021, 3021>>, <<3072, 3072>>, <<3076, 3076>>, <<3132, 3132>>, <<3134,
      3136>>, <<3142, 3144>>, <<3146, 3149>>, <<3157, 3158>>, <<3170, 3171>>,
      <<3201, 3201>>, <<3260, 3260>>, <<3263, 3263>>, <<3270, 3270>>, <<3276,
      3277>>, <<3298, 3299>>, <<3328, 3329>>, <<3387, 3388>>, <<3393, 3396>>,
      <<3405, 3405>>, <<3426, 3427>>, <<3457, 3457>>, <<3530, 3530>>, <<3538,
      3540>>, <<3542, 3542>>, <<3633, 3633>>, <<3636, 3642>>, <<3654, 3662>>,
      <<3761, 3761>>, <<3764, 3772>>, <<3782, 3782>>, <<3784, 3789>>, <<3864,
      3865>>, <<3893, 3893>>, <<3895, 3895>>, <<3897, 3897>>, <<3953, 3966>>,
      <<3968, 3972>>, <<3974, 3975>>, <<3981, 3991>>, <<3993, 4028>>, <<4038,
      4038>>, <<4141, 4144>>, <<4146, 4151>>, <<4153, 4154>>, <<4157, 4158>>,
      <<4184, 4185>>, <<4190, 4192>>, <<4209, 4212>>, <<4226, 4226>>, <<4229,
      4230>>, <<4237, 4237>>, <<4253, 4253>>, <<4348, 4348>>, <<4957, 4959>>,
      <<5906, 5908>>, <<5938, 5939>>, <<5970, 5971>>, <<6002, 6003>>, <<6068,
      6069>>, <<6071, 6077>>, <<6086, 6086>>, <<6089, 6099>>, <<6103, 6103>>,
      <<6109, 6109>>, <<6155, 6159>>, <<6211, 6211>>, <<6277, 6278>>, <<6313,
      6313>>, <<6432, 6434>>, <<6439, 6440>>, <<6450, 6450>>, <<6457, 6459>>,
      <<6679, 6680>>, <<6683, 6683>>, <<6742, 6742>>, <<6744, 6750>>, <<6752,
      6752>>, <<6754, 6754>>, <<6757, 6764>>, <<6771, 6780>>, <<6783, 6783>>,
      <<6823, 6823>>, <<6832, 6862>>, <<6912, 6915>>, <<6964, 6964>>, <<6966,
      6970>>, <<6972, 6972>>, <<6978, 6978>>, <<7019, 7027>>, <<7040, 7041>>,
      <<7074, 7077>>, <<7080, 7081>>, <<7083, 7085>>, <<7142, 7142>>, <<7144,
      7145>>, <<7149, 7149>>, <<7151, 7153>>, <<7212, 7219>>, <<7222, 7223>>,
      <<7288, 7293>>, <<7376, 7378>>, <<7380, 7392>>, <<7394, 7400>>, <<7405,
      7405>>, <<7412, 7412>>, <<7416, 7417>>, <<7468, 7530>>, <<7544, 7544>>,
      <<7579, 7679>>, <<8125, 8125>>, <<8127, 8129>>, <<8141, 8143>>, <<8157,
      8159>>, <<8173, 8175>>, <<8189, 8190>>, <<8203, 8207>>, <<8216, 8217>>,
      <<8228, 8228>>, <<8231, 8231>>, <<8234, 8238>>, <<8288, 8292>>, <<8294,
      8303>>, <<8305, 8305>>, <<8319, 8319>>, <<8336, 8348>>, <<8400, 8432>>,
      <<11388, 11389>>, <<11503, 11505>>, <<11631, 11631>>, <<11647, 11647>>,
      <<11744, 11775>>, <<11823, 11823>>, <<12293, 12293>>, <<12330, 12333>>,
      <<12337, 12341>>, <<12347, 12347>>, <<12441, 12446>>, <<12540, 12542>>,
      <<40981, 40981>>, <<42232, 42237>>, <<42508, 42508>>, <<42607, 42610>>,
      <<42612, 42621>>, <<42623, 42623>>, <<42652, 42655>>, <<42736, 42737>>,
      <<42752, 42785>>, <<42864, 42864>>, <<42888, 42890>>, <<42994, 42996>>,
      <<43000, 43001>>, <<43010, 43010>>, <<43014, 43014>>, <<43019, 43019>>,
      <<43045, 43046>>, <<43052, 43052>>, <<43204, 43205>>, <<43232, 43249>>,
      <<43263, 43263>>, <<43302, 43309>>, <<43335, 43345>>, <<43392, 43394>>,
      <<43443, 43443>>, <<43446, 43449>>, <<43452, 43453>>, <<43471, 43471>>,
      <<43493, 43494>>, <<43561, 43566>>, <<43569, 43570>>, <<43573, 43574>>,
      <<43587, 43587>>, <<43596, 43596>>, <<43632, 43632>>, <<43644, 43644>>,
      <<43696, 43696>>, <<43698, 43700>>, <<43703, 43704>>, <<43710, 43711>>,
      <<43713, 43713>>, <<43741, 43741>>, <<43756, 43757>>, <<43763, 43764>>,
      <<43766, 43766>>, <<43867, 43871>>, <<43881, 43883>>, <<44005, 44005>>,
      <<44008, 44008>>, <<44013, 44013>>, <<64286, 64286>>, <<64434, 64450>>,
      <<65024, 65039>>, <<65043, 65043>>, <<65056, 65071>>, <<65106, 65106>>,
      <<65109, 65109>>, <<65279, 65279>>, <<65287, 65287>>, <<65294, 65294>>,
      <<65306, 65306>>, <<65342, 65342>>, <<65344, 65344>>, <<65392, 65392>>,
      <<65438, 65439>>, <<65507, 65507>>, <<65529, 65531>>, <<66045, 66045>>,
      <<66272, 66272>>, <<66422, 66426>>, <<67456, 67461>>, <<67463, 67504>>,
      <<67506, 67514>>, <<68097, 68099>>, <<68101, 68102>>, <<68108, 68111>>,
      <<68152, 68154>>, <<68159, 68159>>, <<68325, 68326>>, <<68900, 68903>>,
      <<69291, 69292>>, <<69446, 69456>>, <<69506, 69509>>, <<69633, 69633>>,
      <<69688, 69702>>, <<69744, 69744>>, <<69747, 69748>>, <<69759, 69761>>,
      <<69811, 69814>>, <<69817, 69818>>, <<69821, 69821>>, <<69826, 69826>>,
      <<69837, 69837>>, <<69888, 69890>>, <<69927, 69931>>, <<69933, 69940>>,
      <<70003, 70003>>, <<70016, 70017>>, <<70070, 70078>>, <<70089, 70092>>,
      <<70095, 70095>>, <<70191, 70193>>, <<70196, 70196>>, <<70198, 70199>>,
      <<70206, 70206>>, <<70367, 70367>>, <<70371, 70378>>, <<70400, 70401>>,
      <<70459, 70460>>, <<70464, 70464>>, <<70502, 70508>>, <<70512, 70516>>,
      <<70712, 70719>>, <<70722, 70724>>, <<70726, 70726>>, <<70750, 70750>>,
      <<70835, 70840>>, <<70842, 70842>>, <<70847, 70848>>, <<70850, 70851>>,
      <<71090, 71093>>, <<71100, 71101>>, <<71103, 71104>>, <<71132, 71133>>,
      <<71219, 71226>>, <<71229, 71229>>, <<71231, 71232>>, <<71339, 71339>>,
      <<71341, 71341>>, <<71344, 71349>>, <<71351, 71351>>, <<71453, 71455>>,
      <<71458, 71461>>, <<71463, 71467>>, <<71727, 71735>>, <<71737, 71738>>,
      <<71995, 71996>>, <<71998, 71998>>, <<72003, 72003>>, <<72148, 72151>>,
      <<72154, 72155>>, <<72160, 72160>>, <<72193, 72202>>, <<72243, 72248>>,
      <<72251, 72254>>, <<72263, 72263>>, <<72273, 72278>>, <<72281, 72283>>,
      <<72330, 72342>>, <<72344, 72345>>, <<72752, 72758>>, <<72760, 72765>>,
      <<72767, 72767>>, <<72850, 72871>>, <<72874, 72880>>, <<72882, 72883>>,
      <<72885, 72886>>, <<73009, 73014>>, <<73018, 73018>>, <<73020, 73021>>,
      <<73023, 73029>>, <<73031, 73031>>, <<73104, 73105>>, <<73109, 73109>>,
      <<73111, 73111>>, <<73459, 73460>>, <<78896, 78904>>, <<92912, 92916>>,
      <<92976, 92982>>, <<92992, 92995>>, <<94031, 94031>>, <<94095, 94111>>,
      <<94176, 94177>>, <<94179, 94180>>, <<110576, 110579>>, <<110581,
      110587>>, <<110589, 110590>>, <<113821, 113822>>, <<113824, 113827>>,
      <<118528, 118573>>, <<118576, 118598>>, <<119143, 119145>>, <<119155,
      119170>>, <<119173, 119179>>, <<119210, 119213>>, <<119362, 119364>>,
      <<121344, 121398>>, <<121403, 121452>>, <<121461, 121461>>, <<121476,
      121476>>, <<121499, 121503>>, <<121505, 121519>>, <<122880, 122886>>,
      <<122888, 122904>>, <<122907, 122913>>, <<122915, 122916>>, <<122918,
      122922>>, <<123184, 123197>>, <<123566, 123566>>, <<123628, 123631>>,
      <<125136, 125142>>, <<125252, 125259>>, <<127995, 127999>>, <<917505,
      917505>>, <<917536, 917631>>, <<917760, 917999>> }

CaseIgnorable == Spanned(CaseIgnorableRows)

\* the lower case of the capital sigma at s[i]: the final form after a cased
\* letter and not before one, case-ignorable characters being skipped
LowerSigma(s, i) ==
    Bind({j \in 1..(i - 1) : s[j] \notin CaseIgnorable}, LAMBDA before :
    Bind({j \in (i + 1)..Len(s) : s[j] \notin CaseIgnorable}, LAMBDA after :
        IF /\ before # {}
           /\ s[Largest(before)] \in Cased
           /\ (after = {} \/ s[Smallest(after)] \notin Cased)
        THEN <<962>>
        ELSE <<963>>))

\* the lower case of the character s[i]
LowerChar(s, i) ==
    Bind(s[i], LAMBDA c :
        IF c = 931 THEN LowerSigma(s, i)
        ELSE IF c = 304 THEN <<105, 775>>
        ELSE IF c \in HasLower THEN <<ToLowerSimple[c]>>
        ELSE <<c>>)

\* str.lower()
lower(s) ==
    Bind(SubSeq([i \in 1..Len(s) |-> LowerChar(s, i)], 1, Len(s)),
         LAMBDA chars : Concat(chars))

\* the code points c for which chr(c).isspace() holds
Whitespace ==
    { 9, 10, 11, 12, 13, 28, 29, 30, 31, 32, 133, 160, 5760, 8192, 8193, 8194,
      8195, 8196, 8197, 8198, 8199, 8200, 8201, 8202, 8232, 8233, 8239, 8287,
      12288 }

\* the characters str.split() treats as separators
IsSpace(c) == c \in Whitespace

\* str.split(): the maximal runs of non-whitespace characters
split(s) ==
    Bind({i \in 1..Len(s) :
            ~IsSpace(s[i]) /\ (i = 1 \/ IsSpace(s[i - 1]))},
         LAMBDA first :
    Bind({i \in 1..Len(s) :
            ~IsSpace(s[i]) /\ (i = Len(s) \/ IsSpace(s[i + 1]))},
         LAMBDA last :
    Bind(Sorted(first), LAMBDA from :
    Bind(Sorted(last), LAMBDA to :
    Bind(Len(from), LAMBDA n :
        SubSeq([k \in 1..n |-> SubSeq(s, from[k], to[k])], 1, n))))))

\* str.split(sep): the fields between the occurrences of the character sep
SplitOn(s, sep) ==
    Bind(Sorted({i \in 1..Len(s) : s[i] = sep}), LAMBDA at :
    Bind(Len(at) + 1, LAMBDA n :
    SubSeq([k \in 1..n |->
                SubSeq(s, IF k = 1 THEN 1 ELSE at[k - 1] + 1,
                          IF k = n THEN Len(s) ELSE at[k] - 1)],
           1, n)))

----------------------------------------------------------------------------
(* html.unescape *)

\* one more than the largest code point: what a number too large for a
\* character is counted as
TooLarge == 1114112

DecDigits == {Code(c) : c \in {"0", "1", "2", "3", "4", "5", "6", "7", "8", "9"}}

HexDigits ==
    DecDigits \cup {Code(c) : c \in {"a", "b", "c", "d", "e", "f",
                                      "A", "B", "C", "D", "E", "F"}}

\* the value of a digit
DigitValue(c) ==
    IF c \in DecDigits THEN c - DigitZero
    ELSE IF c >= SmallA THEN c - SmallA + 10
    ELSE c - CapitalA + 10

\* number of characters of s from position from on that precede the first
\* one for which Stops holds
RunLen(s, from, Stops(_)) ==
    Bind({i \in from..Len(s) : Stops(s[i])}, LAMBDA stops :
        (IF stops = {} THEN Len(s) + 1 ELSE Smallest(stops)) - from)

\* sys.get_int_max_str_digits(): the longest string of decimal digits int()
\* converts
MaxStrDigits == 4300

\* a number written in base 10 or 16 with more digits than this after its
\* leading zeros is above the largest code point
MaxCodeDigits == 7

\* what a function returned
Value(v) == [exc |-> "none", value |-> v]

\* the exception a function raised instead of returning
Raise(e) == [exc |-> e]

\* the number digits[i..] writes in base, continued from acc, every number
\* above the largest code point counting as TooLarge
RECURSIVE ParseDigits(_, _, _, _)
ParseDigits(digits, base, i, acc) ==
    IF i > Len(digits) THEN acc
    ELSE Bind(Min(acc * base + DigitValue(digits[i]), TooLarge), LAMBDA next :
            ParseDigits(digits, base, i + 1, next))

\* int(digits[from:], base): ValueError for more than MaxStrDigits decimal
\* digits, leading zeros included; a string of hexadecimal digits has no
\* such limit.  Every number above the largest code point counts as
\* TooLarge.
ParseInt(digits, base, from) ==
    IF base = 10 /\ Len(digits) - from + 1 > MaxStrDigits
    THEN Raise("ValueError")
    ELSE Bind(from + RunLen(digits, from, LAMBDA c : c # DigitZero), LAMBDA first :
            Value(IF Len(digits) - first + 1 > MaxCodeDigits
                  THEN TooLarge
                  ELSE ParseDigits(digits, base, first, 0)))

\* html.entities.html5, the named character references with the names that
\* are also recognised without their semicolon: each row holds a name and
\* the code points it stands for
Html5Rows ==
    << "AElig=198", "AElig;=198", "AMP=38", "AMP;=38", "Aacute=193",
      "Aacute;=193", "Abreve;=258", "Acirc=194", "Acirc;=194", "Acy;=1040",
      "Afr;=120068", "Agrave=192", "Agrave;=192", "Alpha;=913", "Amacr;=256",
      "And;=10835", "Aogon;=260", "Aopf;=120120", "ApplyFunction;=8289",
      "Aring=197", "Aring;=197", "Ascr;=119964", "Assign;=8788", "Atilde=195",
      "Atilde;=195", "Auml=196", "Auml;=196", "Backslash;=8726",
      "Barv;=10983", "Barwed;=8966", "Bcy;=1041", "Because;=8757",
      "Bernoullis;=8492", "Beta;=914", "Bfr;=120069", "Bopf;=120121",
      "Breve;=728", "Bscr;=8492", "Bumpeq;=8782", "CHcy;=1063", "COPY=169",
      "COPY;=169", "Cacute;=262", "Cap;=8914", "CapitalDifferentialD;=8517",
      "Cayleys;=8493", "Ccaron;=268", "Ccedil=199", "Ccedil;=199",
      "Ccirc;=264", "Cconint;=8752", "Cdot;=266", "Cedilla;=184",
      "CenterDot;=183", "Cfr;=8493", "Chi;=935", "CircleDot;=8857",
      "CircleMinus;=8854", "CirclePlus;=8853", "CircleTimes;=8855",
      "ClockwiseContourIntegral;=8754", "CloseCurlyDoubleQuote;=8221",
      "CloseCurlyQuote;=8217", "Colon;=8759", "Colone;=10868",
      "Congruent;=8801", "Conint;=8751", "ContourIntegral;=8750",
      "Copf;=8450", "Coproduct;=8720",
      "CounterClockwiseContourIntegral;=8755", "Cross;=10799", "Cscr;=119966",
      "Cup;=8915", "CupCap;=8781", "DD;=8517", "DDotrahd;=10513",
      "DJcy;=1026", "DScy;=1029", "DZcy;=1039", "Dagger;=8225", "Darr;=8609",
      "Dashv;=10980", "Dcaron;=270", "Dcy;=1044", "Del;=8711", "Delta;=916",
      "Dfr;=120071", "DiacriticalAcute;=180", "DiacriticalDot;=729",
      "DiacriticalDoubleAcute;=733", "DiacriticalGrave;=96",
      "DiacriticalTilde;=732", "Diamond;=8900", "DifferentialD;=8518",
      "Dopf;=120123", "Dot;=168", "DotDot;=8412", "DotEqual;=8784",
      "DoubleContourIntegral;=8751", "DoubleDot;=168",
      "DoubleDownArrow;=8659", "DoubleLeftArrow;=8656",
      "DoubleLeftRightArrow;=8660", "DoubleLeftTee;=10980",
      "DoubleLongLeftArrow;=10232", "DoubleLongLeftRightArrow;=10234",
      "DoubleLongRightArrow;=10233", "DoubleRightArrow;=8658",
      "DoubleRightTee;=8872", "DoubleUpArrow;=8657",
      "DoubleUpDownArrow;=8661", "DoubleVerticalBar;=8741", "DownArrow;=8595",
      "DownArrowBar;=10515", "DownArrowUpArrow;=8693", "DownBreve;=785",
      "DownLeftRightVector;=10576", "DownLeftTeeVector;=10590",
      "DownLeftVector;=8637", "DownLeftVectorBar;=10582",
      "DownRightTeeVector;=10591", "DownRightVector;=8641",
      "DownRightVectorBar;=10583", "DownTee;=8868", "DownTeeArrow;=8615",
      "Downarrow;=8659", "Dscr;=119967", "Dstrok;=272", "ENG;=330", "ETH=208",
      "ETH;=208", "Eacute=201", "Eacute;=201", "Ecaron;=282", "Ecirc=202",
      "Ecirc;=202", "Ecy;=1069", "Edot;=278", "Efr;=120072", "Egrave=200",
      "Egrave;=200", "Element;=8712", "Emacr;=274", "EmptySmallSquare;=9723",
      "EmptyVerySmallSquare;=9643", "Eogon;=280", "Eopf;=120124",
      "Epsilon;=917", "Equal;=10869", "EqualTilde;=8770", "Equilibrium;=8652",
      "Escr;=8496", "Esim;=10867", "Eta;=919", "Euml=203", "Euml;=203",
      "Exists;=8707", "ExponentialE;=8519", "Fcy;=1060", "Ffr;=120073",
      "FilledSmallSquare;=9724", "FilledVerySmallSquare;=9642",
      "Fopf;=120125", "ForAll;=8704", "Fouriertrf;=8497", "Fscr;=8497",
      "GJcy;=1027", "GT=62", "GT;=62", "Gamma;=915", "Gammad;=988",
      "Gbreve;=286", "Gcedil;=290", "Gcirc;=284", "Gcy;=1043", "Gdot;=288",
      "Gfr;=120074", "Gg;=8921", "Gopf;=120126", "GreaterEqual;=8805",
      "GreaterEqualLess;=8923", "GreaterFullEqual;=8807",
      "GreaterGreater;=10914", "GreaterLess;=8823",
      "GreaterSlantEqual;=10878", "GreaterTilde;=8819", "Gscr;=119970",
      "Gt;=8811", "HARDcy;=1066", "Hacek;=711", "Hat;=94", "Hcirc;=292",
      "Hfr;=8460", "HilbertSpace;=8459", "Hopf;=8461", "HorizontalLine;=9472",
      "Hscr;=8459", "Hstrok;=294", "HumpDownHump;=8782", "HumpEqual;=8783",
      "IEcy;=1045", "IJlig;=306", "IOcy;=1025", "Iacute=205", "Iacute;=205",
      "Icirc=206", "Icirc;=206", "Icy;=1048", "Idot;=304", "Ifr;=8465",
      "Igrave=204", "Igrave;=204", "Im;=8465", "Imacr;=298",
      "ImaginaryI;=8520", "Implies;=8658", "Int;=8748", "Integral;=8747",
      "Intersection;=8898", "InvisibleComma;=8291", "InvisibleTimes;=8290",
      "Iogon;=302", "Iopf;=120128", "Iota;=921", "Iscr;=8464", "Itilde;=296",
      "Iukcy;=1030", "Iuml=207", "Iuml;=207", "Jcirc;=308", "Jcy;=1049",
      "Jfr;=120077", "Jopf;=120129", "Jscr;=119973", "Jsercy;=1032",
      "Jukcy;=1028", "KHcy;=1061", "KJcy;=1036", "Kappa;=922", "Kcedil;=310",
      "Kcy;=1050", "Kfr;=120078", "Kopf;=120130", "Kscr;=119974",
      "LJcy;=1033", "LT=60", "LT;=60", "Lacute;=313", "Lambda;=923",
      "Lang;=10218", "Laplacetrf;=8466", "Larr;=8606", "Lcaron;=317",
      "Lcedil;=315", "Lcy;=1051", "LeftAngleBracket;=10216",
      "LeftArrow;=8592", "LeftArrowBar;=8676", "LeftArrowRightArrow;=8646",
      "LeftCeiling;=8968", "LeftDoubleBracket;=10214",
      "LeftDownTeeVector;=10593", "LeftDownVector;=8643",
      "LeftDownVectorBar;=10585", "LeftFloor;=8970", "LeftRightArrow;=8596",
      "LeftRightVector;=10574", "LeftTee;=8867", "LeftTeeArrow;=8612",
      "LeftTeeVector;=10586", "LeftTriangle;=8882", "LeftTriangleBar;=10703",
      "LeftTriangleEqual;=8884", "LeftUpDownVector;=10577",
      "LeftUpTeeVector;=10592", "LeftUpVector;=8639",
      "LeftUpVectorBar;=10584", "LeftVector;=8636", "LeftVectorBar;=10578",
      "Leftarrow;=8656", "Leftrightarrow;=8660", "LessEqualGreater;=8922",
      "LessFullEqual;=8806", "LessGreater;=8822", "LessLess;=10913",
      "LessSlantEqual;=10877", "LessTilde;=8818", "Lfr;=120079", "Ll;=8920",
      "Lleftarrow;=8666", "Lmidot;=319", "LongLeftArrow;=10229",
      "LongLeftRightArrow;=10231", "LongRightArrow;=10230",
      "Longleftarrow;=10232", "Longleftrightarrow;=10234",
      "Longrightarrow;=10233", "Lopf;=120131", "LowerLeftArrow;=8601",
      "LowerRightArrow;=8600", "Lscr;=8466", "Lsh;=8624", "Lstrok;=321",
      "Lt;=8810", "Map;=10501", "Mcy;=1052", "MediumSpace;=8287",
      "Mellintrf;=8499", "Mfr;=120080", "MinusPlus;=8723", "Mopf;=120132",
      "Mscr;=8499", "Mu;=924", "NJcy;=1034", "Nacute;=323", "Ncaron;=327",
      "Ncedil;=325", "Ncy;=1053", "NegativeMediumSpace;=8203",
      "NegativeThickSpace;=8203", "NegativeThinSpace;=8203",
      "NegativeVeryThinSpace;=8203", "NestedGreaterGreater;=8811",
      "NestedLessLess;=8810", "NewLine;=10", "Nfr;=120081", "NoBreak;=8288",
      "NonBreakingSpace;=160", "Nopf;=8469", "Not;=10988",
      "NotCongruent;=8802", "NotCupCap;=8813", "NotDoubleVerticalBar;=8742",
      "NotElement;=8713", "NotEqual;=8800", "NotEqualTilde;=8770,824",
      "NotExists;=8708", "NotGreater;=8815", "NotGreaterEqual;=8817",
      "NotGreaterFullEqual;=8807,824", "NotGreaterGreater;=8811,824",
      "NotGreaterLess;=8825", "NotGreaterSlantEqual;=10878,824",
      "NotGreaterTilde;=8821", "NotHumpDownHump;=8782,824",
      "NotHumpEqual;=8783,824", "NotLeftTriangle;=8938",
      "NotLeftTriangleBar;=10703,824", "NotLeftTriangleEqual;=8940",
      "NotLess;=8814", "NotLessEqual;=8816", "NotLessGreater;=8824",
      "NotLessLess;=8810,824", "NotLessSlantEqual;=10877,824",
      "NotLessTilde;=8820", "NotNestedGreaterGreater;=10914,824",
      "NotNestedLessLess;=10913,824", "NotPrecedes;=8832",
      "NotPrecedesEqual;=10927,824", "NotPrecedesSlantEqual;=8928",
      "NotReverseElement;=8716", "NotRightTriangle;=8939",
      "NotRightTriangleBar;=10704,824", "NotRightTriangleEqual;=8941",
      "NotSquareSubset;=8847,824", "NotSquareSubsetEqual;=8930",
      "NotSquareSuperset;=8848,824", "NotSquareSupersetEqual;=8931",
      "NotSubset;=8834,8402", "NotSubsetEqual;=8840", "NotSucceeds;=8833",
      "NotSucceedsEqual;=10928,824", "NotSucceedsSlantEqual;=8929",
      "NotSucceedsTilde;=8831,824", "NotSuperset;=8835,8402",
      "NotSupersetEqual;=8841", "NotTilde;=8769", "NotTildeEqual;=8772",
      "NotTildeFullEqual;=8775", "NotTildeTilde;=8777",
      "NotVerticalBar;=8740", "Nscr;=119977", "Ntilde=209", "Ntilde;=209",
      "Nu;=925", "OElig;=338", "Oacute=211", "Oacute;=211", "Ocirc=212",
      "Ocirc;=212", "Ocy;=1054", "Odblac;=336", "Ofr;=120082", "Ograve=210",
      "Ograve;=210", "Omacr;=332", "Omega;=937", "Omicron;=927",
      "Oopf;=120134", "OpenCurlyDoubleQuote;=8220", "OpenCurlyQuote;=8216",
      "Or;=10836", "Oscr;=119978", "Oslash=216", "Oslash;=216", "Otilde=213",
      "Otilde;=213", "Otimes;=10807", "Ouml=214", "Ouml;=214",
      "OverBar;=8254", "OverBrace;=9182", "OverBracket;=9140",
      "OverParenthesis;=9180", "PartialD;=8706", "Pcy;=1055", "Pfr;=120083",
      "Phi;=934", "Pi;=928", "PlusMinus;=177", "Poincareplane;=8460",
      "Popf;=8473", "Pr;=10939", "Precedes;=8826", "PrecedesEqual;=10927",
      "PrecedesSlantEqual;=8828", "PrecedesTilde;=8830", "Prime;=8243",
      "Product;=8719", "Proportion;=8759", "Proportional;=8733",
      "Pscr;=119979", "Psi;=936", "QUOT=34", "QUOT;=34", "Qfr;=120084",
      "Qopf;=8474", "Qscr;=119980", "RBarr;=10512", "REG=174", "REG;=174",
      "Racute;=340", "Rang;=10219", "Rarr;=8608", "Rarrtl;=10518",
      "Rcaron;=344", "Rcedil;=342", "Rcy;=1056", "Re;=8476",
      "ReverseElement;=8715", "ReverseEquilibrium;=8651",
      "ReverseUpEquilibrium;=10607", "Rfr;=8476", "Rho;=929",
      "RightAngleBracket;=10217", "RightArrow;=8594", "RightArrowBar;=8677",
      "RightArrowLeftArrow;=8644", "RightCeiling;=8969",
      "RightDoubleBracket;=10215", "RightDownTeeVector;=10589",
      "RightDownVector;=8642", "RightDownVectorBar;=10581",
      "RightFloor;=8971", "RightTee;=8866", "RightTeeArrow;=8614",
      "RightTeeVector;=10587", "RightTriangle;=8883",
      "RightTriangleBar;=10704", "RightTriangleEqual;=8885",
      "RightUpDownVector;=10575", "RightUpTeeVector;=10588",
      "RightUpVector;=8638", "RightUpVectorBar;=10580", "RightVector;=8640",
      "RightVectorBar;=10579", "Rightarrow;=8658", "Ropf;=8477",
      "RoundImplies;=10608", "Rrightarrow;=8667", "Rscr;=8475", "Rsh;=8625",
      "RuleDelayed;=10740", "SHCHcy;=1065", "SHcy;=1064", "SOFTcy;=1068",
      "Sacute;=346", "Sc;=10940", "Scaron;=352", "Scedil;=350", "Scirc;=348",
      "Scy;=1057", "Sfr;=120086", "ShortDownArrow;=8595",
      "ShortLeftArrow;=8592", "ShortRightArrow;=8594", "ShortUpArrow;=8593",
      "Sigma;=931", "SmallCircle;=8728", "Sopf;=120138", "Sqrt;=8730",
      "Square;=9633", "SquareIntersection;=8851", "SquareSubset;=8847",
      "SquareSubsetEqual;=8849", "SquareSuperset;=8848",
      "SquareSupersetEqual;=8850", "SquareUnion;=8852", "Sscr;=119982",
      "Star;=8902", "Sub;=8912", "Subset;=8912", "SubsetEqual;=8838",
      "Succeeds;=8827", "SucceedsEqual;=10928", "SucceedsSlantEqual;=8829",
      "SucceedsTilde;=8831", "SuchThat;=8715", "Sum;=8721", "Sup;=8913",
      "Superset;=8835", "SupersetEqual;=8839", "Supset;=8913", "THORN=222",
      "THORN;=222", "TRADE;=8482", "TSHcy;=1035", "TScy;=1062", "Tab;=9",
      "Tau;=932", "Tcaron;=356", "Tcedil;=354", "Tcy;=1058", "Tfr;=120087",
      "Therefore;=8756", "Theta;=920", "ThickSpace;=8287,8202",
      "ThinSpace;=8201", "Tilde;=8764", "TildeEqual;=8771",
      "TildeFullEqual;=8773", "TildeTilde;=8776", "Topf;=120139",
      "TripleDot;=8411", "Tscr;=119983", "Tstrok;=358", "Uacute=218",
      "Uacute;=218", "Uarr;=8607", "Uarrocir;=10569", "Ubrcy;=1038",
      "Ubreve;=364", "Ucirc=219", "Ucirc;=219", "Ucy;=1059", "Udblac;=368",
      "Ufr;=120088", "Ugrave=217", "Ugrave;=217", "Umacr;=362",
      "UnderBar;=95", "UnderBrace;=9183", "UnderBracket;=9141",
      "UnderParenthesis;=9181", "Union;=8899", "UnionPlus;=8846",
      "Uogon;=370", "Uopf;=120140", "UpArrow;=8593", "UpArrowBar;=10514",
      "UpArrowDownArrow;=8645", "UpDownArrow;=8597", "UpEquilibrium;=10606",
      "UpTee;=8869", "UpTeeArrow;=8613", "Uparrow;=8657", "Updownarrow;=8661",
      "UpperLeftArrow;=8598", "UpperRightArrow;=8599", "Upsi;=978",
      "Upsilon;=933", "Uring;=366", "Uscr;=119984", "Utilde;=360", "Uuml=220",
      "Uuml;=220", "VDash;=8875", "Vbar;=10987", "Vcy;=1042", "Vdash;=8873",
      "Vdashl;=10982", "Vee;=8897", "Verbar;=8214", "Vert;=8214",
      "VerticalBar;=8739", "VerticalLine;=124", "VerticalSeparator;=10072",
      "VerticalTilde;=8768", "VeryThinSpace;=8202", "Vfr;=120089",
      "Vopf;=120141", "Vscr;=119985", "Vvdash;=8874", "Wcirc;=372",
      "Wedge;=8896", "Wfr;=120090", "Wopf;=120142", "Wscr;=119986",
      "Xfr;=120091", "Xi;=926", "Xopf;=120143", "Xscr;=119987", "YAcy;=1071",
      "YIcy;=1031", "YUcy;=1070", "Yacute=221", "Yacute;=221", "Ycirc;=374",
      "Ycy;=1067", "Yfr;=120092", "Yopf;=120144", "Yscr;=119988", "Yuml;=376",
      "ZHcy;=1046", "Zacute;=377", "Zcaron;=381", "Zcy;=1047", "Zdot;=379",
      "ZeroWidthSpace;=8203", "Zeta;=918", "Zfr;=8488", "Zopf;=8484",
      "Zscr;=119989", "aacute=225", "aacute;=225", "abreve;=259", "ac;=8766",
      "acE;=8766,819", "acd;=8767", "acirc=226", "acirc;=226", "acute=180",
      "acute;=180", "acy;=1072", "aelig=230", "aelig;=230", "af;=8289",
      "afr;=120094", "agrave=224", "agrave;=224", "alefsym;=8501",
      "aleph;=8501", "alpha;=945", "amacr;=257", "amalg;=10815", "amp=38",
      "amp;=38", "and;=8743", "andand;=10837", "andd;=10844",
      "andslope;=10840", "andv;=10842", "ang;=8736", "ange;=10660",
      "angle;=8736", "angmsd;=8737", "angmsdaa;=10664", "angmsdab;=10665",
      "angmsdac;=10666", "angmsdad;=10667", "angmsdae;=10668",
      "angmsdaf;=10669", "angmsdag;=10670", "angmsdah;=10671", "angrt;=8735",
      "angrtvb;=8894", "angrtvbd;=10653", "angsph;=8738", "angst;=197",
      "angzarr;=9084", "aogon;=261", "aopf;=120146", "ap;=8776", "apE;=10864",
      "apacir;=10863", "ape;=8778", "apid;=8779", "apos;=39", "approx;=8776",
      "approxeq;=8778", "aring=229", "aring;=229", "ascr;=119990", "ast;=42",
      "asymp;=8776", "asympeq;=8781", "atilde=227", "atilde;=227", "auml=228",
      "auml;=228", "awconint;=8755", "awint;=10769", "bNot;=10989",
      "backcong;=8780", "backepsilon;=1014", "backprime;=8245",
      "backsim;=8765", "backsimeq;=8909", "barvee;=8893", "barwed;=8965",
      "barwedge;=8965", "bbrk;=9141", "bbrktbrk;=9142", "bcong;=8780",
      "bcy;=1073", "bdquo;=8222", "becaus;=8757", "because;=8757",
      "bemptyv;=10672", "bepsi;=1014", "bernou;=8492", "beta;=946",
      "beth;=8502", "between;=8812", "bfr;=120095", "bigcap;=8898",
      "bigcirc;=9711", "bigcup;=8899", "bigodot;=10752", "bigoplus;=10753",
      "bigotimes;=10754", "bigsqcup;=10758", "bigstar;=9733",
      "bigtriangledown;=9661", "bigtriangleup;=9651", "biguplus;=10756",
      "bigvee;=8897", "bigwedge;=8896", "bkarow;=10509",
      "blacklozenge;=10731", "blacksquare;=9642", "blacktriangle;=9652",
      "blacktriangledown;=9662", "blacktriangleleft;=9666",
      "blacktriangleright;=9656", "blank;=9251", "blk12;=9618", "blk14;=9617",
      "blk34;=9619", "block;=9608", "bne;=61,8421", "bnequiv;=8801,8421",
      "bnot;=8976", "bopf;=120147", "bot;=8869", "bottom;=8869",
      "bowtie;=8904", "boxDL;=9559", "boxDR;=9556", "boxDl;=9558",
      "boxDr;=9555", "boxH;=9552", "boxHD;=9574", "boxHU;=9577",
      "boxHd;=9572", "boxHu;=9575", "boxUL;=9565", "boxUR;=9562",
      "boxUl;=9564", "boxUr;=9561", "boxV;=9553", "boxVH;=9580",
      "boxVL;=9571", "boxVR;=9568", "boxVh;=9579", "boxVl;=9570",
      "boxVr;=9567", "boxbox;=10697", "boxdL;=9557", "boxdR;=9554",
      "boxdl;=9488", "boxdr;=9484", "boxh;=9472", "boxhD;=9573",
      "boxhU;=9576", "boxhd;=9516", "boxhu;=9524", "boxminus;=8863",
      "boxplus;=8862", "boxtimes;=8864", "boxuL;=9563", "boxuR;=9560",
      "boxul;=9496", "boxur;=9492", "boxv;=9474", "boxvH;=9578",
      "boxvL;=9569", "boxvR;=9566", "boxvh;=9532", "boxvl;=9508",
      "boxvr;=9500", "bprime;=8245", "breve;=728", "brvbar=166",
      "brvbar;=166", "bscr;=119991", "bsemi;=8271", "bsim;=8765",
      "bsime;=8909", "bsol;=92", "bsolb;=10693", "bsolhsub;=10184",
      "bull;=8226", "bullet;=8226", "bump;=8782", "bumpE;=10926",
      "bumpe;=8783", "bumpeq;=8783", "cacute;=263", "cap;=8745",
      "capand;=10820", "capbrcup;=10825", "capcap;=10827", "capcup;=10823",
      "capdot;=10816", "caps;=8745,65024", "caret;=8257", "caron;=711",
      "ccaps;=10829", "ccaron;=269", "ccedil=231", "ccedil;=231",
      "ccirc;=265", "ccups;=10828", "ccupssm;=10832", "cdot;=267",
      "cedil=184", "cedil;=184", "cemptyv;=10674", "cent=162", "cent;=162",
      "centerdot;=183", "cfr;=120096", "chcy;=1095", "check;=10003",
      "checkmark;=10003", "chi;=967", "cir;=9675", "cirE;=10691", "circ;=710",
      "circeq;=8791", "circlearrowleft;=8634", "circlearrowright;=8635",
      "circledR;=174", "circledS;=9416", "circledast;=8859",
      "circledcirc;=8858", "circleddash;=8861", "cire;=8791",
      "cirfnint;=10768", "cirmid;=10991", "cirscir;=10690", "clubs;=9827",
      "clubsuit;=9827", "colon;=58", "colone;=8788", "coloneq;=8788",
      "comma;=44", "commat;=64", "comp;=8705", "compfn;=8728",
      "complement;=8705", "complexes;=8450", "cong;=8773", "congdot;=10861",
      "conint;=8750", "copf;=120148", "coprod;=8720", "copy=169", "copy;=169",
      "copysr;=8471", "crarr;=8629", "cross;=10007", "cscr;=119992",
      "csub;=10959", "csube;=10961", "csup;=10960", "csupe;=10962",
      "ctdot;=8943", "cudarrl;=10552", "cudarrr;=10549", "cuepr;=8926",
      "cuesc;=8927", "cularr;=8630", "cularrp;=10557", "cup;=8746",
      "cupbrcap;=10824", "cupcap;=10822", "cupcup;=10826", "cupdot;=8845",
      "cupor;=10821", "cups;=8746,65024", "curarr;=8631", "curarrm;=10556",
      "curlyeqprec;=8926", "curlyeqsucc;=8927", "curlyvee;=8910",
      "curlywedge;=8911", "curren=164", "curren;=164", "curvearrowleft;=8630",
      "curvearrowright;=8631", "cuvee;=8910", "cuwed;=8911", "cwconint;=8754",
      "cwint;=8753", "cylcty;=9005", "dArr;=8659", "dHar;=10597",
      "dagger;=8224", "daleth;=8504", "darr;=8595", "dash;=8208",
      "dashv;=8867", "dbkarow;=10511", "dblac;=733", "dcaron;=271",
      "dcy;=1076", "dd;=8518", "ddagger;=8225", "ddarr;=8650",
      "ddotseq;=10871", "deg=176", "deg;=176", "delta;=948", "demptyv;=10673",
      "dfisht;=10623", "dfr;=120097", "dharl;=8643", "dharr;=8642",
      "diam;=8900", "diamond;=8900", "diamondsuit;=9830", "diams;=9830",
      "die;=168", "digamma;=989", "disin;=8946", "div;=247", "divide=247",
      "divide;=247", "divideontimes;=8903", "divonx;=8903", "djcy;=1106",
      "dlcorn;=8990", "dlcrop;=8973", "dollar;=36", "dopf;=120149",
      "dot;=729", "doteq;=8784", "doteqdot;=8785", "dotminus;=8760",
      "dotplus;=8724", "dotsquare;=8865", "doublebarwedge;=8966",
      "downarrow;=8595", "downdownarrows;=8650", "downharpoonleft;=8643",
      "downharpoonright;=8642", "drbkarow;=10512", "drcorn;=8991",
      "drcrop;=8972", "dscr;=119993", "dscy;=1109", "dsol;=10742",
      "dstrok;=273", "dtdot;=8945", "dtri;=9663", "dtrif;=9662",
      "duarr;=8693", "duhar;=10607", "dwangle;=10662", "dzcy;=1119",
      "dzigrarr;=10239", "eDDot;=10871", "eDot;=8785", "eacute=233",
      "eacute;=233", "easter;=10862", "ecaron;=283", "ecir;=8790",
      "ecirc=234", "ecirc;=234", "ecolon;=8789", "ecy;=1101", "edot;=279",
      "ee;=8519", "efDot;=8786", "efr;=120098", "eg;=10906", "egrave=232",
      "egrave;=232", "egs;=10902", "egsdot;=10904", "el;=10905",
      "elinters;=9191", "ell;=8467", "els;=10901", "elsdot;=10903",
      "emacr;=275", "empty;=8709", "emptyset;=8709", "emptyv;=8709",
      "emsp13;=8196", "emsp14;=8197", "emsp;=8195", "eng;=331", "ensp;=8194",
      "eogon;=281", "eopf;=120150", "epar;=8917", "eparsl;=10723",
      "eplus;=10865", "epsi;=949", "epsilon;=949", "epsiv;=1013",
      "eqcirc;=8790", "eqcolon;=8789", "eqsim;=8770", "eqslantgtr;=10902",
      "eqslantless;=10901", "equals;=61", "equest;=8799", "equiv;=8801",
      "equivDD;=10872", "eqvparsl;=10725", "erDot;=8787", "erarr;=10609",
      "escr;=8495", "esdot;=8784", "esim;=8770", "eta;=951", "eth=240",
      "eth;=240", "euml=235", "euml;=235", "euro;=8364", "excl;=33",
      "exist;=8707", "expectation;=8496", "exponentiale;=8519",
      "fallingdotseq;=8786", "fcy;=1092", "female;=9792", "ffilig;=64259",
      "fflig;=64256", "ffllig;=64260", "ffr;=120099", "filig;=64257",
      "fjlig;=102,106", "flat;=9837", "fllig;=64258", "fltns;=9649",
      "fnof;=402", "fopf;=120151", "forall;=8704", "fork;=8916",
      "forkv;=10969", "fpartint;=10765", "frac12=189", "frac12;=189",
      "frac13;=8531", "frac14=188", "frac14;=188", "frac15;=8533",
      "frac16;=8537", "frac18;=8539", "frac23;=8532", "frac25;=8534",
      "frac34=190", "frac34;=190", "frac35;=8535", "frac38;=8540",
      "frac45;=8536", "frac56;=8538", "frac58;=8541", "frac78;=8542",
      "frasl;=8260", "frown;=8994", "fscr;=119995", "gE;=8807", "gEl;=10892",
      "gacute;=501", "gamma;=947", "gammad;=989", "gap;=10886", "gbreve;=287",
      "gcirc;=285", "gcy;=1075", "gdot;=289", "ge;=8805", "gel;=8923",
      "geq;=8805", "geqq;=8807", "geqslant;=10878", "ges;=10878",
      "gescc;=10921", "gesdot;=10880", "gesdoto;=10882", "gesdotol;=10884",
      "gesl;=8923,65024", "gesles;=10900", "gfr;=120100", "gg;=8811",
      "ggg;=8921", "gimel;=8503", "gjcy;=1107", "gl;=8823", "glE;=10898",
      "gla;=10917", "glj;=10916", "gnE;=8809", "gnap;=10890",
      "gnapprox;=10890", "gne;=10888", "gneq;=10888", "gneqq;=8809",
      "gnsim;=8935", "gopf;=120152", "grave;=96", "gscr;=8458", "gsim;=8819",
      "gsime;=10894", "gsiml;=10896", "gt=62", "gt;=62", "gtcc;=10919",
      "gtcir;=10874", "gtdot;=8919", "gtlPar;=10645", "gtquest;=10876",
      "gtrapprox;=10886", "gtrarr;=10616", "gtrdot;=8919", "gtreqless;=8923",
      "gtreqqless;=10892", "gtrless;=8823", "gtrsim;=8819",
      "gvertneqq;=8809,65024", "gvnE;=8809,65024", "hArr;=8660",
      "hairsp;=8202", "half;=189", "hamilt;=8459", "hardcy;=1098",
      "harr;=8596", "harrcir;=10568", "harrw;=8621", "hbar;=8463",
      "hcirc;=293", "hearts;=9829", "heartsuit;=9829", "hellip;=8230",
      "hercon;=8889", "hfr;=120101", "hksearow;=10533", "hkswarow;=10534",
      "hoarr;=8703", "homtht;=8763", "hookleftarrow;=8617",
      "hookrightarrow;=8618", "hopf;=120153", "horbar;=8213", "hscr;=119997",
      "hslash;=8463", "hstrok;=295", "hybull;=8259", "hyphen;=8208",
      "iacute=237", "iacute;=237", "ic;=8291", "icirc=238", "icirc;=238",
      "icy;=1080", "iecy;=1077", "iexcl=161", "iexcl;=161", "iff;=8660",
      "ifr;=120102", "igrave=236", "igrave;=236", "ii;=8520", "iiiint;=10764",
      "iiint;=8749", "iinfin;=10716", "iiota;=8489", "ijlig;=307",
      "imacr;=299", "image;=8465", "imagline;=8464", "imagpart;=8465",
      "imath;=305", "imof;=8887", "imped;=437", "in;=8712", "incare;=8453",
      "infin;=8734", "infintie;=10717", "inodot;=305", "int;=8747",
      "intcal;=8890", "integers;=8484", "intercal;=8890", "intlarhk;=10775",
      "intprod;=10812", "iocy;=1105", "iogon;=303", "iopf;=120154",
      "iota;=953", "iprod;=10812", "iquest=191", "iquest;=191",
      "iscr;=119998", "isin;=8712", "isinE;=8953", "isindot;=8949",
      "isins;=8948", "isinsv;=8947", "isinv;=8712", "it;=8290", "itilde;=297",
      "iukcy;=1110", "iuml=239", "iuml;=239", "jcirc;=309", "jcy;=1081",
      "jfr;=120103", "jmath;=567", "jopf;=120155", "jscr;=119999",
      "jsercy;=1112", "jukcy;=1108", "kappa;=954", "kappav;=1008",
      "kcedil;=311", "kcy;=1082", "kfr;=120104", "kgreen;=312", "khcy;=1093",
      "kjcy;=1116", "kopf;=120156", "kscr;=120000", "lAarr;=8666",
      "lArr;=8656", "lAtail;=10523", "lBarr;=10510", "lE;=8806", "lEg;=10891",
      "lHar;=10594", "lacute;=314", "laemptyv;=10676", "lagran;=8466",
      "lambda;=955", "lang;=10216", "langd;=10641", "langle;=10216",
      "lap;=10885", "laquo=171", "laquo;=171", "larr;=8592", "larrb;=8676",
      "larrbfs;=10527", "larrfs;=10525", "larrhk;=8617", "larrlp;=8619",
      "larrpl;=10553", "larrsim;=10611", "larrtl;=8610", "lat;=10923",
      "latail;=10521", "late;=10925", "lates;=10925,65024", "lbarr;=10508",
      "lbbrk;=10098", "lbrace;=123", "lbrack;=91", "lbrke;=10635",
      "lbrksld;=10639", "lbrkslu;=10637", "lcaron;=318", "lcedil;=316",
      "lceil;=8968", "lcub;=123", "lcy;=1083", "ldca;=10550", "ldquo;=8220",
      "ldquor;=8222", "ldrdhar;=10599", "ldrushar;=10571", "ldsh;=8626",
      "le;=8804", "leftarrow;=8592", "leftarrowtail;=8610",
      "leftharpoondown;=8637", "leftharpoonup;=8636", "leftleftarrows;=8647",
      "leftrightarrow;=8596", "leftrightarrows;=8646",
      "leftrightharpoons;=8651", "leftrightsquigarrow;=8621",
      "leftthreetimes;=8907", "leg;=8922", "leq;=8804", "leqq;=8806",
      "leqslant;=10877", "les;=10877", "lescc;=10920", "lesdot;=10879",
      "lesdoto;=10881", "lesdotor;=10883", "lesg;=8922,65024",
      "lesges;=10899", "lessapprox;=10885", "lessdot;=8918",
      "lesseqgtr;=8922", "lesseqqgtr;=10891", "lessgtr;=8822",
      "lesssim;=8818", "lfisht;=10620", "lfloor;=8970", "lfr;=120105",
      "lg;=8822", "lgE;=10897", "lhard;=8637", "lharu;=8636", "lharul;=10602",
      "lhblk;=9604", "ljcy;=1113", "ll;=8810", "llarr;=8647",
      "llcorner;=8990", "llhard;=10603", "lltri;=9722", "lmidot;=320",
      "lmoust;=9136", "lmoustache;=9136", "lnE;=8808", "lnap;=10889",
      "lnapprox;=10889", "lne;=10887", "lneq;=10887", "lneqq;=8808",
      "lnsim;=8934", "loang;=10220", "loarr;=8701", "lobrk;=10214",
      "longleftarrow;=10229", "longleftrightarrow;=10231",
      "longmapsto;=10236", "longrightarrow;=10230", "looparrowleft;=8619",
      "looparrowright;=8620", "lopar;=10629", "lopf;=120157", "loplus;=10797",
      "lotimes;=10804", "lowast;=8727", "lowbar;=95", "loz;=9674",
      "lozenge;=9674", "lozf;=10731", "lpar;=40", "lparlt;=10643",
      "lrarr;=8646", "lrcorner;=8991", "lrhar;=8651", "lrhard;=10605",
      "lrm;=8206", "lrtri;=8895", "lsaquo;=8249", "lscr;=120001", "lsh;=8624",
      "lsim;=8818", "lsime;=10893", "lsimg;=10895", "lsqb;=91", "lsquo;=8216",
      "lsquor;=8218", "lstrok;=322", "lt=60", "lt;=60", "ltcc;=10918",
      "ltcir;=10873", "ltdot;=8918", "lthree;=8907", "ltimes;=8905",
      "ltlarr;=10614", "ltquest;=10875", "ltrPar;=10646", "ltri;=9667",
      "ltrie;=8884", "ltrif;=9666", "lurdshar;=10570", "luruhar;=10598",
      "lvertneqq;=8808,65024", "lvnE;=8808,65024", "mDDot;=8762", "macr=175",
      "macr;=175", "male;=9794", "malt;=10016", "maltese;=10016", "map;=8614",
      "mapsto;=8614", "mapstodown;=8615", "mapstoleft;=8612",
      "mapstoup;=8613", "marker;=9646", "mcomma;=10793", "mcy;=1084",
      "mdash;=8212", "measuredangle;=8737", "mfr;=120106", "mho;=8487",
      "micro=181", "micro;=181", "mid;=8739", "midast;=42", "midcir;=10992",
      "middot=183", "middot;=183", "minus;=8722", "minusb;=8863",
      "minusd;=8760", "minusdu;=10794", "mlcp;=10971", "mldr;=8230",
      "mnplus;=8723", "models;=8871", "mopf;=120158", "mp;=8723",
      "mscr;=120002", "mstpos;=8766", "mu;=956", "multimap;=8888",
      "mumap;=8888", "nGg;=8921,824", "nGt;=8811,8402", "nGtv;=8811,824",
      "nLeftarrow;=8653", "nLeftrightarrow;=8654", "nLl;=8920,824",
      "nLt;=8810,8402", "nLtv;=8810,824", "nRightarrow;=8655", "nVDash;=8879",
      "nVdash;=8878", "nabla;=8711", "nacute;=324", "nang;=8736,8402",
      "nap;=8777", "napE;=10864,824", "napid;=8779,824", "napos;=329",
      "napprox;=8777", "natur;=9838", "natural;=9838", "naturals;=8469",
      "nbsp=160", "nbsp;=160", "nbump;=8782,824", "nbumpe;=8783,824",
      "ncap;=10819", "ncaron;=328", "ncedil;=326", "ncong;=8775",
      "ncongdot;=10861,824", "ncup;=10818", "ncy;=1085", "ndash;=8211",
      "ne;=8800", "neArr;=8663", "nearhk;=10532", "nearr;=8599",
      "nearrow;=8599", "nedot;=8784,824", "nequiv;=8802", "nesear;=10536",
      "nesim;=8770,824", "nexist;=8708", "nexists;=8708", "nfr;=120107",
      "ngE;=8807,824", "nge;=8817", "ngeq;=8817", "ngeqq;=8807,824",
      "ngeqslant;=10878,824", "nges;=10878,824", "ngsim;=8821", "ngt;=8815",
      "ngtr;=8815", "nhArr;=8654", "nharr;=8622", "nhpar;=10994", "ni;=8715",
      "nis;=8956", "nisd;=8954", "niv;=8715", "njcy;=1114", "nlArr;=8653",
      "nlE;=8806,824", "nlarr;=8602", "nldr;=8229", "nle;=8816",
      "nleftarrow;=8602", "nleftrightarrow;=8622", "nleq;=8816",
      "nleqq;=8806,824", "nleqslant;=10877,824", "nles;=10877,824",
      "nless;=8814", "nlsim;=8820", "nlt;=8814", "nltri;=8938",
      "nltrie;=8940", "nmid;=8740", "nopf;=120159", "not=172", "not;=172",
      "notin;=8713", "notinE;=8953,824", "notindot;=8949,824",
      "notinva;=8713", "notinvb;=8951", "notinvc;=8950", "notni;=8716",
      "notniva;=8716", "notnivb;=8958", "notnivc;=8957", "npar;=8742",
      "nparallel;=8742", "nparsl;=11005,8421", "npart;=8706,824",
      "npolint;=10772", "npr;=8832", "nprcue;=8928", "npre;=10927,824",
      "nprec;=8832", "npreceq;=10927,824", "nrArr;=8655", "nrarr;=8603",
      "nrarrc;=10547,824", "nrarrw;=8605,824", "nrightarrow;=8603",
      "nrtri;=8939", "nrtrie;=8941", "nsc;=8833", "nsccue;=8929",
      "nsce;=10928,824", "nscr;=120003", "nshortmid;=8740",
      "nshortparallel;=8742", "nsim;=8769", "nsime;=8772", "nsimeq;=8772",
      "nsmid;=8740", "nspar;=8742", "nsqsube;=8930", "nsqsupe;=8931",
      "nsub;=8836", "nsubE;=10949,824", "nsube;=8840", "nsubset;=8834,8402",
      "nsubseteq;=8840", "nsubseteqq;=10949,824", "nsucc;=8833",
      "nsucceq;=10928,824", "nsup;=8837", "nsupE;=10950,824", "nsupe;=8841",
      "nsupset;=8835,8402", "nsupseteq;=8841", "nsupseteqq;=10950,824",
      "ntgl;=8825", "ntilde=241", "ntilde;=241", "ntlg;=8824",
      "ntriangleleft;=8938", "ntrianglelefteq;=8940", "ntriangleright;=8939",
      "ntrianglerighteq;=8941", "nu;=957", "num;=35", "numero;=8470",
      "numsp;=8199", "nvDash;=8877", "nvHarr;=10500", "nvap;=8781,8402",
      "nvdash;=8876", "nvge;=8805,8402", "nvgt;=62,8402", "nvinfin;=10718",
      "nvlArr;=10498", "nvle;=8804,8402", "nvlt;=60,8402",
      "nvltrie;=8884,8402", "nvrArr;=10499", "nvrtrie;=8885,8402",
      "nvsim;=8764,8402", "nwArr;=8662", "nwarhk;=10531", "nwarr;=8598",
      "nwarrow;=8598", "nwnear;=10535", "oS;=9416", "oacute=243",
      "oacute;=243", "oast;=8859", "ocir;=8858", "ocirc=244", "ocirc;=244",
      "ocy;=1086", "odash;=8861", "odblac;=337", "odiv;=10808", "odot;=8857",
      "odsold;=10684", "oelig;=339", "ofcir;=10687", "ofr;=120108",
      "ogon;=731", "ograve=242", "ograve;=242", "ogt;=10689", "ohbar;=10677",
      "ohm;=937", "oint;=8750", "olarr;=8634", "olcir;=10686",
      "olcross;=10683", "oline;=8254", "olt;=10688", "omacr;=333",
      "omega;=969", "omicron;=959", "omid;=10678", "ominus;=8854",
      "oopf;=120160", "opar;=10679", "operp;=10681", "oplus;=8853",
      "or;=8744", "orarr;=8635", "ord;=10845", "order;=8500", "orderof;=8500",
      "ordf=170", "ordf;=170", "ordm=186", "ordm;=186", "origof;=8886",
      "oror;=10838", "orslope;=10839", "orv;=10843", "oscr;=8500",
      "oslash=248", "oslash;=248", "osol;=8856", "otilde=245", "otilde;=245",
      "otimes;=8855", "otimesas;=10806", "ouml=246", "ouml;=246",
      "ovbar;=9021", "par;=8741", "para=182", "para;=182", "parallel;=8741",
      "parsim;=10995", "parsl;=11005", "part;=8706", "pcy;=1087",
      "percnt;=37", "period;=46", "permil;=8240", "perp;=8869",
      "pertenk;=8241", "pfr;=120109", "phi;=966", "phiv;=981", "phmmat;=8499",
      "phone;=9742", "pi;=960", "pitchfork;=8916", "piv;=982", "planck;=8463",
      "planckh;=8462", "plankv;=8463", "plus;=43", "plusacir;=10787",
      "plusb;=8862", "pluscir;=10786", "plusdo;=8724", "plusdu;=10789",
      "pluse;=10866", "plusmn=177", "plusmn;=177", "plussim;=10790",
      "plustwo;=10791", "pm;=177", "pointint;=10773", "popf;=120161",
      "pound=163", "pound;=163", "pr;=8826", "prE;=10931", "prap;=10935",
      "prcue;=8828", "pre;=10927", "prec;=8826", "precapprox;=10935",
      "preccurlyeq;=8828", "preceq;=10927", "precnapprox;=10937",
      "precneqq;=10933", "precnsim;=8936", "precsim;=8830", "prime;=8242",
      "primes;=8473", "prnE;=10933", "prnap;=10937", "prnsim;=8936",
      "prod;=8719", "profalar;=9006", "profline;=8978", "profsurf;=8979",
      "prop;=8733", "propto;=8733", "prsim;=8830", "prurel;=8880",
      "pscr;=120005", "psi;=968", "puncsp;=8200", "qfr;=120110",
      "qint;=10764", "qopf;=120162", "qprime;=8279", "qscr;=120006",
      "quaternions;=8461", "quatint;=10774", "quest;=63", "questeq;=8799",
      "quot=34", "quot;=34", "rAarr;=8667", "rArr;=8658", "rAtail;=10524",
      "rBarr;=10511", "rHar;=10596", "race;=8765,817", "racute;=341",
      "radic;=8730", "raemptyv;=10675", "rang;=10217", "rangd;=10642",
      "range;=10661", "rangle;=10217", "raquo=187", "raquo;=187",
      "rarr;=8594", "rarrap;=10613", "rarrb;=8677", "rarrbfs;=10528",
      "rarrc;=10547", "rarrfs;=10526", "rarrhk;=8618", "rarrlp;=8620",
      "rarrpl;=10565", "rarrsim;=10612", "rarrtl;=8611", "rarrw;=8605",
      "ratail;=10522", "ratio;=8758", "rationals;=8474", "rbarr;=10509",
      "rbbrk;=10099", "rbrace;=125", "rbrack;=93", "rbrke;=10636",
      "rbrksld;=10638", "rbrkslu;=10640", "rcaron;=345", "rcedil;=343",
      "rceil;=8969", "rcub;=125", "rcy;=1088", "rdca;=10551",
      "rdldhar;=10601", "rdquo;=8221", "rdquor;=8221", "rdsh;=8627",
      "real;=8476", "realine;=8475", "realpart;=8476", "reals;=8477",
      "rect;=9645", "reg=174", "reg;=174", "rfisht;=10621", "rfloor;=8971",
      "rfr;=120111", "rhard;=8641", "rharu;=8640", "rharul;=10604",
      "rho;=961", "rhov;=1009", "rightarrow;=8594", "rightarrowtail;=8611",
      "rightharpoondown;=8641", "rightharpoonup;=8640",
      "rightleftarrows;=8644", "rightleftharpoons;=8652",
      "rightrightarrows;=8649", "rightsquigarrow;=8605",
      "rightthreetimes;=8908", "ring;=730", "risingdotseq;=8787",
      "rlarr;=8644", "rlhar;=8652", "rlm;=8207", "rmoust;=9137",
      "rmoustache;=9137", "rnmid;=10990", "roang;=10221", "roarr;=8702",
      "robrk;=10215", "ropar;=10630", "ropf;=120163", "roplus;=10798",
      "rotimes;=10805", "rpar;=41", "rpargt;=10644", "rppolint;=10770",
      "rrarr;=8649", "rsaquo;=8250", "rscr;=120007", "rsh;=8625", "rsqb;=93",
      "rsquo;=8217", "rsquor;=8217", "rthree;=8908", "rtimes;=8906",
      "rtri;=9657", "rtrie;=8885", "rtrif;=9656", "rtriltri;=10702",
      "ruluhar;=10600", "rx;=8478", "sacute;=347", "sbquo;=8218", "sc;=8827",
      "scE;=10932", "scap;=10936", "scaron;=353", "sccue;=8829", "sce;=10928",
      "scedil;=351", "scirc;=349", "scnE;=10934", "scnap;=10938",
      "scnsim;=8937", "scpolint;=10771", "scsim;=8831", "scy;=1089",
      "sdot;=8901", "sdotb;=8865", "sdote;=10854", "seArr;=8664",
      "searhk;=10533", "searr;=8600", "searrow;=8600", "sect=167",
      "sect;=167", "semi;=59", "seswar;=10537", "setminus;=8726",
      "setmn;=8726", "sext;=10038", "sfr;=120112", "sfrown;=8994",
      "sharp;=9839", "shchcy;=1097", "shcy;=1096", "shortmid;=8739",
      "shortparallel;=8741", "shy=173", "shy;=173", "sigma;=963",
      "sigmaf;=962", "sigmav;=962", "sim;=8764", "simdot;=10858",
      "sime;=8771", "simeq;=8771", "simg;=10910", "simgE;=10912",
      "siml;=10909", "simlE;=10911", "simne;=8774", "simplus;=10788",
      "simrarr;=10610", "slarr;=8592", "smallsetminus;=8726", "smashp;=10803",
      "smeparsl;=10724", "smid;=8739", "smile;=8995", "smt;=10922",
      "smte;=10924", "smtes;=10924,65024", "softcy;=1100", "sol;=47",
      "solb;=10692", "solbar;=9023", "sopf;=120164", "spades;=9824",
      "spadesuit;=9824", "spar;=8741", "sqcap;=8851", "sqcaps;=8851,65024",
      "sqcup;=8852", "sqcups;=8852,65024", "sqsub;=8847", "sqsube;=8849",
      "sqsubset;=8847", "sqsubseteq;=8849", "sqsup;=8848", "sqsupe;=8850",
      "sqsupset;=8848", "sqsupseteq;=8850", "squ;=9633", "square;=9633",
      "squarf;=9642", "squf;=9642", "srarr;=8594", "sscr;=120008",
      "ssetmn;=8726", "ssmile;=8995", "sstarf;=8902", "star;=9734",
      "starf;=9733", "straightepsilon;=1013", "straightphi;=981",
      "strns;=175", "sub;=8834", "subE;=10949", "subdot;=10941", "sube;=8838",
      "subedot;=10947", "submult;=10945", "subnE;=10955", "subne;=8842",
      "subplus;=10943", "subrarr;=10617", "subset;=8834", "subseteq;=8838",
      "subseteqq;=10949", "subsetneq;=8842", "subsetneqq;=10955",
      "subsim;=10951", "subsub;=10965", "subsup;=10963", "succ;=8827",
      "succapprox;=10936", "succcurlyeq;=8829", "succeq;=10928",
      "succnapprox;=10938", "succneqq;=10934", "succnsim;=8937",
      "succsim;=8831", "sum;=8721", "sung;=9834", "sup1=185", "sup1;=185",
      "sup2=178", "sup2;=178", "sup3=179", "sup3;=179", "sup;=8835",
      "supE;=10950", "supdot;=10942", "supdsub;=10968", "supe;=8839",
      "supedot;=10948", "suphsol;=10185", "suphsub;=10967", "suplarr;=10619",
      "supmult;=10946", "supnE;=10956", "supne;=8843", "supplus;=10944",
      "supset;=8835", "supseteq;=8839", "supseteqq;=10950", "supsetneq;=8843",
      "supsetneqq;=10956", "supsim;=10952", "supsub;=10964", "supsup;=10966",
      "swArr;=8665", "swarhk;=10534", "swarr;=8601", "swarrow;=8601",
      "swnwar;=10538", "szlig=223", "szlig;=223", "target;=8982", "tau;=964",
      "tbrk;=9140", "tcaron;=357", "tcedil;=355", "tcy;=1090", "tdot;=8411",
      "telrec;=8981", "tfr;=120113", "there4;=8756", "therefore;=8756",
      "theta;=952", "thetasym;=977", "thetav;=977", "thickapprox;=8776",
      "thicksim;=8764", "thinsp;=8201", "thkap;=8776", "thksim;=8764",
      "thorn=254", "thorn;=254", "tilde;=732", "times=215", "times;=215",
      "timesb;=8864", "timesbar;=10801", "timesd;=10800", "tint;=8749",
      "toea;=10536", "top;=8868", "topbot;=9014", "topcir;=10993",
      "topf;=120165", "topfork;=10970", "tosa;=10537", "tprime;=8244",
      "trade;=8482", "triangle;=9653", "triangledown;=9663",
      "triangleleft;=9667", "trianglelefteq;=8884", "triangleq;=8796",
      "triangleright;=9657", "trianglerighteq;=8885", "tridot;=9708",
      "trie;=8796", "triminus;=10810", "triplus;=10809", "trisb;=10701",
      "tritime;=10811", "trpezium;=9186", "tscr;=120009", "tscy;=1094",
      "tshcy;=1115", "tstrok;=359", "twixt;=8812", "twoheadleftarrow;=8606",
      "twoheadrightarrow;=8608", "uArr;=8657", "uHar;=10595", "uacute=250",
      "uacute;=250", "uarr;=8593", "ubrcy;=1118", "ubreve;=365", "ucirc=251",
      "ucirc;=251", "ucy;=1091", "udarr;=8645", "udblac;=369", "udhar;=10606",
      "ufisht;=10622", "ufr;=120114", "ugrave=249", "ugrave;=249",
      "uharl;=8639", "uharr;=8638", "uhblk;=9600", "ulcorn;=8988",
      "ulcorner;=8988", "ulcrop;=8975", "ultri;=9720", "umacr;=363",
      "uml=168", "uml;=168", "uogon;=371", "uopf;=120166", "uparrow;=8593",
      "updownarrow;=8597", "upharpoonleft;=8639", "upharpoonright;=8638",
      "uplus;=8846", "upsi;=965", "upsih;=978", "upsilon;=965",
      "upuparrows;=8648", "urcorn;=8989", "urcorner;=8989", "urcrop;=8974",
      "uring;=367", "urtri;=9721", "uscr;=120010", "utdot;=8944",
      "utilde;=361", "utri;=9653", "utrif;=9652", "uuarr;=8648", "uuml=252",
      "uuml;=252", "uwangle;=10663", "vArr;=8661", "vBar;=10984",
      "vBarv;=10985", "vDash;=8872", "vangrt;=10652", "varepsilon;=1013",
      "varkappa;=1008", "varnothing;=8709", "varphi;=981", "varpi;=982",
      "varpropto;=8733", "varr;=8597", "varrho;=1009", "varsigma;=962",
      "varsubsetneq;=8842,65024", "varsubsetneqq;=10955,65024",
      "varsupsetneq;=8843,65024", "varsupsetneqq;=10956,65024",
      "vartheta;=977", "vartriangleleft;=8882", "vartriangleright;=8883",
      "vcy;=1074", "vdash;=8866", "vee;=8744", "veebar;=8891", "veeeq;=8794",
      "vellip;=8942", "verbar;=124", "vert;=124", "vfr;=120115",
      "vltri;=8882", "vnsub;=8834,8402", "vnsup;=8835,8402", "vopf;=120167",
      "vprop;=8733", "vrtri;=8883", "vscr;=120011", "vsubnE;=10955,65024",
      "vsubne;=8842,65024", "vsupnE;=10956,65024", "vsupne;=8843,65024",
      "vzigzag;=10650", "wcirc;=373", "wedbar;=10847", "wedge;=8743",
      "wedgeq;=8793", "weierp;=8472", "wfr;=120116", "wopf;=120168",
      "wp;=8472", "wr;=8768", "wreath;=8768", "wscr;=120012", "xcap;=8898",
      "xcirc;=9711", "xcup;=8899", "xdtri;=9661", "xfr;=120117",
      "xhArr;=10234", "xharr;=10231", "xi;=958", "xlArr;=10232",
      "xlarr;=10229", "xmap;=10236", "xnis;=8955", "xodot;=10752",
      "xopf;=120169", "xoplus;=10753", "xotime;=10754", "xrArr;=10233",
      "xrarr;=10230", "xscr;=120013", "xsqcup;=10758", "xuplus;=10756",
      "xutri;=9651", "xvee;=8897", "xwedge;=8896", "yacute=253",
      "yacute;=253", "yacy;=1103", "ycirc;=375", "ycy;=1099", "yen=165",
      "yen;=165", "yfr;=120118", "yicy;=1111", "yopf;=120170", "yscr;=120014",
      "yucy;=1102", "yuml=255", "yuml;=255", "zacute;=378", "zcaron;=382",
      "zcy;=1079", "zdot;=380", "zeetrf;=8488", "zeta;=950", "zfr;=120119",
      "zhcy;=1078", "zigrarr;=8669", "zopf;=120171", "zscr;=120015",
      "zwj;=8205", "zwnj;=8204" >>

\* <<name, text>> of a row
Html5Row(row) ==
    Bind(Str(row), LAMBDA t :
    Bind(Find(t, Str("=")), LAMBDA eq :
    Bind(SplitOn(Drop(t, eq), Comma), LAMBDA codes :
        <<Take(t, eq - 1),
          SubSeq([k \in 1..Len(codes) |-> ParseDigits(codes[k], 10, 1, 0)],
                 1, Len(codes))>>)))

\* the rows lo..hi as a function from name to text
RECURSIVE Html5Range(_, _)
Html5Range(lo, hi) ==
    IF lo = hi
    THEN Bind(Html5Row(Html5Rows[lo]), LAMBDA r : r[1] :> r[2])
    ELSE Bind((lo + hi) \div 2, LAMBDA mid :
            Html5Range(lo, mid) @@ Html5Range(mid + 1, hi))

Html5 == Html5Range(1, Len(Html5Rows))

Html5Names == DOMAIN Html5

\* html._invalid_charrefs: the numeric references that stand for another
\* character than the one they number
InvalidCharrefs ==
    (0 :> 65533) @@ (13 :> 13) @@ (128 :> 8364) @@ (129 :> 129) @@ (130 :> 8218)
    @@ (131 :> 402) @@ (132 :> 8222) @@ (133 :> 8230) @@ (134 :> 8224)
    @@ (135 :> 8225) @@ (136 :> 710) @@ (137 :> 8240) @@ (138 :> 352)
    @@ (139 :> 8249) @@ (140 :> 338) @@ (141 :> 141) @@ (142 :> 381)
    @@ (143 :> 143) @@ (144 :> 144) @@ (145 :> 8216) @@ (146 :> 8217)
    @@ (147 :> 8220) @@ (148 :> 8221) @@ (149 :> 8226) @@ (150 :> 8211)
    @@ (151 :> 8212) @@ (152 :> 732) @@ (153 :> 8482) @@ (154 :> 353)
    @@ (155 :> 8250) @@ (156 :> 339) @@ (157 :> 157) @@ (158 :> 382)
    @@ (159 :> 376)

InvalidNumbers == DOMAIN InvalidCharrefs

\* html._invalid_codepoints: the code points a numeric reference may not name
InvalidCodepoints ==
    (1..8) \cup (14..31) \cup (127..159) \cup (64976..65007) \cup {11}
        \cup {plane * 65536 + low : plane \in 0..16, low \in {65534, 65535}}

\* the characters that end the name of a character reference
EndsCharref == {Code(c) : c \in {"\t", "\n", "\f", " ", "<", "&", "#", ";"}}

\* n, plus one when a semicolon follows the first n characters of s
WithSemicolon(s, n) ==
    IF n < Len(s) /\ s[n + 1] = Semicolon THEN n + 1 ELSE n

\* The length of what the pattern _charref matches after an ampersand that
\* rest follows, 0 when it matches nothing: a decimal reference, a
\* hexadecimal reference, or a name of 32 characters at most.
CharrefLen(rest) ==
    IF rest = Empty THEN 0
    ELSE IF rest[1] = NumberSign
    THEN Bind(RunLen(rest, 2, LAMBDA c : c \notin DecDigits), LAMBDA dec :
            IF dec > 0 THEN WithSemicolon(rest, 1 + dec)
            ELSE IF Len(rest) >= 2 /\ rest[2] \in HexMarks
            THEN Bind(RunLen(rest, 3, LAMBDA c : c \notin HexDigits), LAMBDA hex :
                    IF hex > 0 THEN WithSemicolon(rest, 2 + hex) ELSE 0)
            ELSE 0)
    ELSE Bind(Min(32, RunLen(rest, 1, LAMBDA c : c \in EndsCharref)), LAMBDA n :
            IF n > 0 THEN WithSemicolon(rest, n) ELSE 0)

\* s.rstrip(";") of a reference, which ends in one semicolon at most
RStripSemicolon(s) ==
    IF s # Empty /\ s[Len(s)] = Semicolon THEN Take(s, Len(s) - 1) ELSE s

\* the character a numeric reference stands for
NumericCharref(num) ==
    IF num \in InvalidNumbers THEN <<InvalidCharrefs[num]>>
    ELSE IF (55296 <= num /\ num <= 57343) \/ num > 1114111 THEN <<65533>>
    ELSE IF num \in InvalidCodepoints THEN Empty
    ELSE <<num>>

\* html._replace_charref on the text tok that followed an ampersand: the
\* text the reference stands for, or the ValueError int() raises
replace_charref(tok) ==
    IF tok[1] = NumberSign
    THEN Bind(RStripSemicolon(tok), LAMBDA digits :
         Bind(IF digits[2] \in HexMarks
              THEN ParseInt(digits, 16, 3)
              ELSE ParseInt(digits, 10, 2), LAMBDA num :
            IF num.exc # "none" THEN num
            ELSE Value(NumericCharref(num.value))))
    ELSE IF tok \in Html5Names
    THEN Value(Html5[tok])
    ELSE Bind({x \in 2..(Len(tok) - 1) : Take(tok, x) \in Html5Names},
              LAMBDA known :
                 IF known # {}
                 THEN Value(Html5[Take(tok, Largest(known))]
                                \o Drop(tok, Largest(known)))
                 ELSE Value(Str("&") \o tok))

\* what the text from one ampersand up to the next becomes, or the exception
\* its reference raises
UnescapeFromAmp(seg) ==
    Bind(Tail(seg), LAMBDA rest :
    Bind(CharrefLen(rest), LAMBDA m :
        IF m = 0 THEN Value(seg)
        ELSE Bind(replace_charref(Take(rest, m)), LAMBDA text :
                IF text.exc # "none" THEN text
                ELSE Value(text.value \o Drop(rest, m)))))

\* html.unescape(s): every reference starts at an ampersand and ends before
\* the next one; the first reference that raises ends the call
unescape(s) ==
    Bind(Sorted({i \in 1..Len(s) : s[i] = Ampersand}), LAMBDA amps :
    Bind(Len(amps), LAMBDA n :
        IF n = 0 THEN Value(s)
        ELSE Bind(SubSeq([k \in 1..n |->
                            Bind(SubSeq(s, amps[k],
                                        IF k = n THEN Len(s) ELSE amps[k + 1] - 1),
                                 LAMBDA seg : UnescapeFromAmp(seg))],
                         1, n),
                  LAMBDA parts :
         Bind({k \in 1..n : parts[k].exc # "none"}, LAMBDA raising :
            IF raising # {} THEN parts[Smallest(raising)]
            ELSE Value(Take(s, amps[1] - 1)
                         \o Concat(SubSeq([k \in 1..n |-> parts[k].value],
                                          1, n)))))))

----------------------------------------------------------------------------
(* posixpath *)

Slash == Str("/")

\* s.rstrip("/")
RStripSlash(s) ==
    Bind({i \in 1..Len(s) : s[i] # SlashChar}, LAMBDA keep :
        IF keep = {} THEN Empty ELSE Take(s, Largest(keep)))

\* os.path.split(p)
PathSplit(p) ==
    Bind(RFind(p, Slash), LAMBDA i :
    Bind(Take(p, i), LAMBDA head :
    Bind(RStripSlash(head), LAMBDA stripped :
        [head |-> IF stripped # Empty THEN stripped ELSE head,
         tail |-> Drop(p, i)])))

\* os.path.dirname(p)
dirname(p) == PathSplit(p).head

\* os.path.join(a, b)
PathJoin(a, b) ==
    IF StartsAt(b, 1, Slash) THEN b
    ELSE IF a = Empty \/ a[Len(a)] = SlashChar THEN a \o b
    ELSE a \o Slash \o b

----------------------------------------------------------------------------
(* The file system.  d.dirs is the set of directories and d.files maps     *)
(* each regular file to its text; both are keyed by absolute path.  The    *)
(* script runs in the directory Cwd, the checkout of the site.             *)

Root == Str("/")

Home == Str("/home")

Cwd == Str("/home/site")

Dot == Str(".")

DotDot == Str("..")

Put(f, k, v) == [x \in DOMAIN f \cup {k} |-> IF x = k THEN v ELSE f[x]]

Child(dir, name) == IF dir = Root THEN Root \o name ELSE dir \o Slash \o name

\* the directory ".." names in the directory key: the root is its own parent
Parent(key) ==
    Bind(RFind(key, Slash), LAMBDA i : IF i <= 1 THEN Root ELSE Take(key, i - 1))

\* the longest name of a directory entry, in bytes
NameMax == 255

\* the longest path a system call takes, in bytes
PathMax == 4095

\* a surrogate code point
IsSurrogate(c) == c >= 55296 /\ c <= 57343

\* a surrogate that stands for a byte of a file name that is not UTF-8
IsEscapedByte(c) == c >= 56448 /\ c <= 56575

\* how many characters of name are code points from `from` on, the
\* surrogates that stand for one byte aside
Wider(name, from) ==
    Cardinality({i \in 1..Len(name) : name[i] >= from /\ ~IsEscapedByte(name[i])})

\* len(os.fsencode(name))
Utf8Len(name) ==
    Len(name) + Wider(name, 128) + Wider(name, 2048) + Wider(name, 65536)

\* name takes more than limit bytes
TooLong(name, limit) == 4 * Len(name) > limit /\ Utf8Len(name) > limit

\* the byte an escaped one stands for
ByteOf(c) == c - 56320

\* s[i] is an escaped continuation byte of UTF-8
IsContinuation(s, i) == i <= Len(s) /\ IsEscapedByte(s[i]) /\ ByteOf(s[i]) < 192

\* the six bits the continuation byte s[i] carries
Bits(s, i) == ByteOf(s[i]) - 128

\* The character the escaped bytes from s[i] on encode in UTF-8 and the
\* number of bytes it takes; len is 0 when they encode none.
Utf8At(s, i) ==
    Bind(ByteOf(s[i]), LAMBDA b :
        IF b >= 194 /\ b <= 223 /\ IsContinuation(s, i + 1)
        THEN [len |-> 2, char |-> (b - 192) * 64 + Bits(s, i + 1)]
        ELSE IF b >= 224 /\ b <= 239
                /\ IsContinuation(s, i + 1) /\ IsContinuation(s, i + 2)
        THEN Bind((b - 224) * 4096 + Bits(s, i + 1) * 64 + Bits(s, i + 2), LAMBDA c :
                IF c >= 2048 /\ ~IsSurrogate(c)
                THEN [len |-> 3, char |-> c] ELSE [len |-> 0, char |-> 0])
        ELSE IF b >= 240 /\ b <= 244 /\ IsContinuation(s, i + 1)
                /\ IsContinuation(s, i + 2) /\ IsContinuation(s, i + 3)
        THEN Bind((b - 240) * 262144 + Bits(s, i + 1) * 4096
                    + Bits(s, i + 2) * 64 + Bits(s, i + 3), LAMBDA c :
                IF c >= 65536 /\ c < TooLarge
                THEN [len |-> 4, char |-> c] ELSE [len |-> 0, char |-> 0])
        ELSE [len |-> 0, char |-> 0])

\* os.fsdecode(os.fsencode(s)) from s[i] on: escaped bytes that encode a
\* character are that character
RECURSIVE FsDecodeFrom(_, _)
FsDecodeFrom(s, i) ==
    Bind({j \in i..Len(s) : IsEscapedByte(s[j])}, LAMBDA escaped :
        IF escaped = {} THEN Drop(s, i - 1)
        ELSE Bind(Smallest(escaped), LAMBDA j :
             Bind(Utf8At(s, j), LAMBDA u :
                SubSeq(s, i, j - 1)
                    \o (IF u.len = 0 THEN <<s[j]>> ELSE <<u.char>>)
                    \o FsDecodeFrom(s, j + (IF u.len = 0 THEN 1 ELSE u.len)))))

\* the name the kernel is given for path, as os.listdir() reads it back
FsName(path) ==
    IF \E i \in 1..Len(path) : IsEscapedByte(path[i])
    THEN FsDecodeFrom(path, 1)
    ELSE path

\* the directory a path starts from
StartOf(path) == IF StartsAt(path, 1, Slash) THEN Root ELSE Cwd

\* Path resolution from directory cur, comps[i] being the next component:
\* the key the path names, or the errno the kernel answers.
RECURSIVE Walk(_, _, _, _)
Walk(d, comps, i, cur) ==
    IF i > Len(comps) THEN [err |-> "none", key |-> cur]
    ELSE IF cur \notin d.dirs
         THEN [err |-> IF cur \in DOMAIN d.files THEN "ENOTDIR" ELSE "ENOENT",
               key |-> cur]
    ELSE IF TooLong(comps[i], NameMax) THEN [err |-> "ENAMETOOLONG", key |-> cur]
    ELSE Bind(IF comps[i] = Dot THEN cur
              ELSE IF comps[i] = DotDot THEN Parent(cur)
              ELSE Child(cur, comps[i]),
              LAMBDA next : Walk(d, comps, i + 1, next))

\* The components of a path: the names between its slashes, a run of
\* slashes counting as one.
Components(path) == SelectSeq(SplitOn(path, SlashChar), LAMBDA name : name # Empty)

\* What keeps path from reaching the kernel: os.fsencode(path) refuses a
\* surrogate that does not stand for a byte, and no system call is given a
\* null character; then the kernel refuses an empty path and one longer than
\* PathMax.
PathError(path) ==
    IF path = Empty THEN "ENOENT"
    ELSE IF \E i \in 1..Len(path) : IsSurrogate(path[i]) /\ ~IsEscapedByte(path[i])
    THEN "UnicodeEncodeError"
    ELSE IF \E i \in 1..Len(path) : path[i] = 0 THEN "ValueError"
    ELSE IF TooLong(path, PathMax) THEN "ENAMETOOLONG"
    ELSE "none"

\* the exception Python raises for an errno
OSErrorOf(err) ==
    CASE err = "ENOTDIR" -> "NotADirectoryError"
      [] err = "ENOENT" -> "FileNotFoundError"
      [] err = "EEXIST" -> "FileExistsError"
      [] err = "EISDIR" -> "IsADirectoryError"
      [] err = "ENAMETOOLONG" -> "OSError"
      [] OTHER -> err

\* the exceptions that are no OSError
NotOSError == {"ValueError", "UnicodeEncodeError"}

\* what stat(path) resolves path to
Lookup(d, path) ==
    Bind(PathError(path), LAMBDA refused :
        IF refused # "none" THEN [err |-> refused, key |-> Empty]
        ELSE Bind(Components(FsName(path)), LAMBDA comps :
                Walk(d,
                     IF path[Len(path)] = SlashChar THEN comps \o <<Dot>> ELSE comps,
                     1, StartOf(path))))

\* What the kernel resolves the path of an entry to create to: every
\* component but the last names a directory, and the last one names the
\* entry.  dir: the last component names a directory
\* whatever the entry is (".", "..", or a trailing slash was there).  long:
\* the last component is too long a name for an entry.
LookupCreate(d, path) ==
    Bind(PathError(path), LAMBDA refused :
    IF refused # "none"
    THEN [err |-> refused, key |-> Empty, dir |-> FALSE, long |-> FALSE]
    ELSE
    Bind(Components(FsName(path)), LAMBDA comps :
    Bind(Len(comps), LAMBDA n :
    Bind(Walk(d, SubSeq(comps, 1, n - 1) \o <<Dot>>, 1, StartOf(path)), LAMBDA up :
        IF up.err # "none"
        THEN [err |-> up.err, key |-> up.key, dir |-> FALSE, long |-> FALSE]
        ELSE IF n = 0 \/ comps[n] = Dot
        THEN [err |-> "none", key |-> up.key, dir |-> TRUE, long |-> FALSE]
        ELSE IF comps[n] = DotDot
        THEN [err |-> "none", key |-> Parent(up.key), dir |-> TRUE, long |-> FALSE]
        ELSE [err |-> "none", key |-> Child(up.key, comps[n]),
              dir |-> path[Len(path)] = SlashChar,
              long |-> TooLong(comps[n], NameMax)]))))

\* os.path.exists(path)
exists(d, path) ==
    Bind(Lookup(d, path), LAMBDA r :
        r.err = "none" /\ r.key \in d.dirs \cup DOMAIN d.files)

\* os.path.isdir(path)
isdir(d, path) ==
    Bind(Lookup(d, path), LAMBDA r : r.err = "none" /\ r.key \in d.dirs)

\* os.path.isfile(path)
isfile(d, path) ==
    Bind(Lookup(d, path), LAMBDA r : r.err = "none" /\ r.key \in DOMAIN d.files)

\* os.mkdir(path)
mkdir(d, path) ==
    Bind(LookupCreate(d, path), LAMBDA r :
        IF r.err # "none" THEN [fs |-> d, exc |-> OSErrorOf(r.err)]
        ELSE IF r.long THEN [fs |-> d, exc |-> OSErrorOf("ENAMETOOLONG")]
        ELSE IF r.key \in d.dirs \cup DOMAIN d.files
             THEN [fs |-> d, exc |-> OSErrorOf("EEXIST")]
        ELSE [fs |-> [d EXCEPT !.dirs = @ \cup {r.key}], exc |-> "none"])

\* the end of os.makedirs: mkdir(name), an OSError being passed over when
\* name is a directory
MkdirExistOk(d, name) ==
    Bind(mkdir(d, name), LAMBDA r :
        IF r.exc \notin {"none"} \cup NotOSError /\ isdir(d, name)
        THEN [fs |-> d, exc |-> "none"]
        ELSE r)

\* os.makedirs(name, exist_ok=True)
RECURSIVE makedirs(_, _)
makedirs(d, name) ==
    Bind(PathSplit(name), LAMBDA s1 :
    Bind(IF s1.tail = Empty THEN PathSplit(s1.head) ELSE s1, LAMBDA s :
        IF s.head # Empty /\ s.tail # Empty /\ ~exists(d, s.head)
        THEN Bind(makedirs(d, s.head), LAMBDA up :
                IF up.exc \notin {"none", "FileExistsError"} THEN up
                ELSE IF s.tail = Dot THEN [fs |-> up.fs, exc |-> "none"]
                ELSE MkdirExistOk(up.fs, name))
        ELSE MkdirExistOk(d, name)))

\* text holds a surrogate, which UTF-8 does not encode
Unencodable(text) == \E i \in 1..Len(text) : IsSurrogate(text[i])

\* with open(path, "w", encoding="utf-8") as f, the block writing `written`
\* to f and ending with raised
OpenWrite(d, path, written, raised) ==
    Bind(LookupCreate(d, path), LAMBDA r :
        IF r.err # "none" THEN [fs |-> d, exc |-> OSErrorOf(r.err)]
        ELSE IF r.dir \/ r.key \in d.dirs THEN [fs |-> d, exc |-> OSErrorOf("EISDIR")]
        ELSE IF r.long THEN [fs |-> d, exc |-> OSErrorOf("ENAMETOOLONG")]
        ELSE [fs |-> [d EXCEPT !.files = Put(@, r.key, written)], exc |-> raised])

\* with open(path, "w", encoding="utf-8") as f: f.write(content)
\* A text that cannot be encoded leaves the file empty.
WriteFile(d, path, content) ==
    IF Unencodable(content)
    THEN OpenWrite(d, path, Empty, "UnicodeEncodeError")
    ELSE OpenWrite(d, path, content, "none")

\* with open(path, "w", encoding="utf-8") as f: f.writelines(lines)
\* The lines before one that cannot be encoded reach the file.
WriteLines(d, path, lines) ==
    Bind({k \in 1..Len(lines) : Unencodable(lines[k])}, LAMBDA bad :
        IF bad = {}
        THEN OpenWrite(d, path, Concat(lines), "none")
        ELSE OpenWrite(d, path, Concat(SubSeq(lines, 1, Smallest(bad) - 1)),
                       "UnicodeEncodeError"))

\* the text of the file at path
FileText(d, path) == d.files[Lookup(d, path).key]

\* f.readlines() of a file opened in text mode: "\r\n" and "\r" read as "\n",
\* and every line keeps its "\n".  ends holds the last character of every
\* line terminator.
readlines(content) ==
    Bind(Sorted({i \in 1..Len(content) :
                    \/ content[i] = LineFeed
                    \/ content[i] = CarriageReturn
                       /\ ~(i < Len(content) /\ content[i + 1] = LineFeed)}),
         LAMBDA ends :
    LET n == Len(content)
        count == Len(ends)
                    + (IF n > 0 /\ (ends = <<>> \/ ends[Len(ends)] # n) THEN 1 ELSE 0)
        Start(k) == IF k = 1 THEN 1 ELSE ends[k - 1] + 1
        Line(k) ==
            IF k > Len(ends)
            THEN SubSeq(content, Start(k), n)
            ELSE Bind(ends[k], LAMBDA e :
                 Bind(Start(k), LAMBDA b :
                    IF e > b /\ content[e - 1] = CarriageReturn
                    THEN SubSeq(content, b, e - 2) \o <<LineFeed>>
                    ELSE SubSeq(content, b, e - 1) \o <<LineFeed>>))
    IN  SubSeq([k \in 1..count |-> Line(k)], 1, count))

----------------------------------------------------------------------------
(* update_articles.py *)

NEWS_DIR == Str("news")
INDEX_FILE == Str("index.html")

\* the length safe_title is trimmed to
SafeTitleLen == 50

\* Python's None
None == <<>>

DefaultTitle == Str("Article sans titre")

\* dict.get(key, default) on a feed entry
EntryGet(entry, key, default) ==
    IF key \in DOMAIN entry THEN entry[key] ELSE default

\* the last `width` decimal digits of n
RECURSIVE Padded(_, _)
Padded(n, width) ==
    IF width = 0 THEN Empty
    ELSE Padded(n \div 10, width - 1) \o <<DigitZero + (n % 10)>>

\* datetime.date.isoformat(): YYYY-MM-DD
isoformat(date) ==
    Padded(date.year, 4) \o Str("-") \o Padded(date.month, 2)
        \o Str("-") \o Padded(date.day, 2)

\* datetime.datetime.isoformat(): the date, "T", the time of day, and the
\* microseconds when they are not zero
datetime_isoformat(t) ==
    isoformat(t) \o Str("T") \o Padded(t.hour, 2) \o Str(":")
        \o Padded(t.minute, 2) \o Str(":") \o Padded(t.second, 2)
        \o (IF t.microsecond = 0 THEN Empty
            ELSE Str(".") \o Padded(t.microsecond, 6))

\* the dictionary fetch_latest_entry() makes of an entry, or the exception
\* html.unescape raises on its title or on its description
EntryDict(entry, utcnow) ==
    Bind(unescape(EntryGet(entry, "title", DefaultTitle)), LAMBDA title :
        IF title.exc # "none" THEN title
        ELSE Bind(unescape(EntryGet(entry, "description", Empty)),
                  LAMBDA description :
                IF description.exc # "none" THEN description
                ELSE Value([title |-> title.value,
                            link |-> EntryGet(entry, "link", Empty),
                            description |-> description.value,
                            published |->
                                EntryGet(entry, "published",
                                         datetime_isoformat(utcnow))])))

\* fetch_latest_entry() without the check for an empty feed: an empty feed is
\* read as one entry without fields
fetch_latest_entry_Unchecked(parsed, utcnow) ==
    EntryDict(IF parsed.entries = <<>> THEN <<>> ELSE parsed.entries[1], utcnow)

\* fetch_latest_entry(), parsed being what feedparser.parse(FEED_URL)
\* returned and utcnow what datetime.datetime.utcnow() returns
fetch_latest_entry(parsed, utcnow) ==
    IF parsed.entries = <<>>
    THEN Value(None)
    ELSE EntryDict(parsed.entries[1], utcnow)

\* the fixed text of the page generate_article_html renders, up to each of
\* the fields it fills in
PageToTitle ==
    Str("\n<!DOCTYPE html>\n<html lang=\"fr\">\n<head>\n"
        \o "  <meta charset=\"UTF-8\">\n"
        \o "  <meta name=\"viewport\" content=\"width=device-width, initial-scale=1.0\">\n"
        \o "  <title>")

PageToHeading ==
    Str("</title>\n"
        \o "  <link rel=\"stylesheet\" href=\"../styles.css\">\n"
        \o "</head>\n<body>\n  <header>\n"
        \o "    <h1>")

PageToPublished ==
    Str("</h1>\n"
        \o "    <nav>\n      <a href=\"../index.html\">Accueil</a>\n    </nav>\n"
        \o "  </header>\n  <main class=\"article\">\n"
        \o "    <p><em>Publié le ")

PageToDescription == Str("</em></p>\n    <p>")

PageToLink == Str("</p>\n    <p>Lire l'article complet : <a href=\"")

PageToEnd ==
    Str("\">source</a></p>\n"
        \o "  </main>\n  <footer>\n"
        \o "    <p>Ce contenu provient d'un flux RSS externe. Pour plus d'articles, "
        \o "consultez la section actualités du site.</p>\n"
        \o "  </footer>\n</body>\n</html>\n")

\* the page generate_article_html renders
ArticlePage(article_data) ==
    PageToTitle \o article_data.title
        \o PageToHeading \o article_data.title
        \o PageToPublished \o article_data.published
        \o PageToDescription \o article_data.description
        \o PageToLink \o article_data.link
        \o PageToEnd

\* generate_article_html(article_data, file_path)
generate_article_html(d, article_data, file_path) ==
    Bind(dirname(file_path), LAMBDA dir :
    Bind(makedirs(d, dir), LAMBDA made :
        IF made.exc # "none" THEN made
        ELSE WriteFile(made.fs, file_path, ArticlePage(article_data))))

LinkToHref == Str("    <li><a href=\"")

LinkToTitle == Str("\">")

LinkToEnd == Str("</a></li>\n")

\* the list entry update_index adds
ArticleLink(article_filename, article_title) ==
    LinkToHref \o PathJoin(NEWS_DIR, article_filename) \o LinkToTitle
        \o article_title \o LinkToEnd

SectionOpening ==
    << Str("  <section id=\"derniers-articles\">\n"),
       Str("    <h2>Derniers articles</h2>\n"),
       Str("    <ul>\n") >>

SectionClosing == << Str("    </ul>\n"), Str("  </section>\n") >>

\* the section update_index creates around the entry
SectionHtml(article_link) == SectionOpening \o <<article_link>> \o SectionClosing

SectionMarker == Str("<section id=\"derniers-articles\"")

ListMarker == Str("<ul")

MainEndMarker == Str("</main>")

\* the first position from `from` on (1-based) of a line containing marker,
\* 0 when there is none
FirstLine(lines, from, marker) ==
    Bind({j \in from..Len(lines) : Contains(lines[j], marker)}, LAMBDA hits :
        IF hits = {} THEN 0 ELSE Smallest(hits))

\* lines[n:n] = items, n counting the lines that stay before the items
InsertLines(lines, n, items) ==
    SubSeq(lines, 1, n) \o items \o SubSeq(lines, n + 1, Len(lines))

\* the lines of index.html as update_index rewrites them
PatchedLines(lines, article_link) ==
    Bind(FirstLine(lines, 1, SectionMarker), LAMBDA start :
        IF start # 0
        THEN Bind(FirstLine(lines, start, ListMarker), LAMBDA ul :
                InsertLines(lines, IF ul # 0 THEN ul ELSE start, <<article_link>>))
        ELSE Bind(FirstLine(lines, 1, MainEndMarker), LAMBDA main_end :
                InsertLines(lines,
                            IF main_end # 0 THEN main_end - 1 ELSE Len(lines),
                            SectionHtml(article_link))))

\* update_index(article_filename, article_title)
update_index(d, article_filename, article_title) ==
    IF ~exists(d, INDEX_FILE)
    THEN [fs |-> d, exc |-> "none"]
    ELSE IF isdir(d, INDEX_FILE)
    THEN [fs |-> d, exc |-> OSErrorOf("EISDIR")]
    ELSE Bind(readlines(FileText(d, INDEX_FILE)), LAMBDA lines :
         Bind(ArticleLink(article_filename, article_title), LAMBDA article_link :
         Bind(PatchedLines(lines, article_link), LAMBDA patched :
            WriteLines(d, INDEX_FILE, patched))))

Hyphen == Str("-")

HtmlSuffix == Str(".html")

\* the name main() gives the page of an article
ArticleFilename(article, date) ==
    Bind(lower(article.title), LAMBDA lowered :
    Bind(split(lowered), LAMBDA words :
    Bind(join(Hyphen, words), LAMBDA safe_title :
        isoformat(date) \o Hyphen \o Take(safe_title, SafeTitleLen) \o HtmlSuffix)))

ArticleAdded == Str("Article ajouté : ")

NoArticle == Str("Aucun article n'a été trouvé dans le flux RSS.")

\* main() from the article on: the page, then the index, then the message
Publish(d, article, filename) ==
    Bind(generate_article_html(d, article, PathJoin(NEWS_DIR, filename)), LAMBDA page :
        IF page.exc # "none"
        THEN [fs |-> page.fs, exc |-> page.exc, out |-> Empty,
              article |-> article, filename |-> filename]
        ELSE Bind(update_index(page.fs, filename, article.title), LAMBDA index :
                [fs |-> index.fs, exc |-> index.exc,
                 out |-> IF index.exc # "none" THEN Empty
                         ELSE ArticleAdded \o filename,
                 article |-> article, filename |-> filename]))

\* main(): the file system it leaves, the exception that ended it, what it
\* printed, and its locals article and filename.  now is what the clock
\* reads during the run: now.today is datetime.date.today() and now.utcnow
\* is datetime.datetime.utcnow().
main(d, parsed, now) ==
    Bind(fetch_latest_entry(parsed, now.utcnow), LAMBDA fetched :
        IF fetched.exc # "none"
        THEN [fs |-> d, exc |-> fetched.exc, out |-> Empty,
              article |-> None, filename |-> None]
        ELSE Bind(fetched.value, LAMBDA article :
            IF article = None
            THEN [fs |-> d, exc |-> "none", out |-> NoArticle,
                  article |-> None, filename |-> None]
            ELSE Bind(ArticleFilename(article, now.today), LAMBDA filename :
                    Publish(d, article, filename))))

----------------------------------------------------------------------------
(* The inputs of the model *)

\* how many times main() runs
MaxRuns == 2

\* the days of the month the runs happen on, from FirstDay on
MaxDays == 2

FirstDay == [year |-> 2026, month |-> 10, day |-> 29]

\* datetime.date.today() on the n-th day of the model
DayOf(n) == [FirstDay EXCEPT !.day = @ + n]

\* the instant at a time of day of a date
At(date, hour, minute, second, microsecond) ==
    [year |-> date.year, month |-> date.month, day |-> date.day,
     hour |-> hour, minute |-> minute, second |-> second,
     microsecond |-> microsecond]

\* the scheduled start, on a machine whose zone is UTC, on a whole second
Morning(n) == [today |-> DayOf(n), utcnow |-> At(DayOf(n), 6, 0, 0, 0)]

\* a start soon after local midnight on a machine one hour ahead of UTC
AfterMidnight(n) ==
    [today |-> DayOf(n), utcnow |-> At(DayOf(n - 1), 23, 58, 51, 7701)]

\* what the clock can read during a run on the n-th day
ClockReadings(n) == {Morning(n), AfterMidnight(n)}

\* a title with an accented capital, a no-break space and a typographic
\* apostrophe
EntryPlain ==
    [title |-> Str("Sommet États-Unis&nbsp;: l&rsquo;OTAN &amp; la crise"),
     link |-> Str("https://example.org/a"),
     description |-> Str("Un r&eacute;sum&#233; &lt;b&gt;court&lt;/b&gt;"),
     published |-> Str("Fri, 30 Oct 2026 05:00:00 +0000")]

\* an entry without any of the four fields
EntryBare == [guid |-> Str("urn:1")]

EntryEmptyTitle ==
    [title |-> Empty, link |-> Str("https://example.org/b"),
     published |-> Str("Fri, 30 Oct 2026 05:10:00 +0000")]

\* a title longer than SafeTitleLen whose slashes and dots name a page above
\* the working directory
EntrySlash ==
    [title |-> Str("US/../../../China: une longue analyse des relations "
                   \o "internationales"),
     link |-> Str("https://example.org/c"),
     published |-> Str("Fri, 30 Oct 2026 05:05:00 +0000")]

\* a title that reads "<ul> ou <ol>" once unescaped
EntryMarkup ==
    [title |-> Str("&lt;ul&gt; ou &lt;ol&gt;"), link |-> Str("https://example.org/d"),
     published |-> Str("Fri, 30 Oct 2026 05:20:00 +0000")]

\* a title whose page would lie below the page of EntryPlain
EntryBelow ==
    [title |-> Str("sommet-états-unis-:-l&#8217;otan-&amp;-la-crise.html/suite"),
     link |-> Str("https://example.org/e"),
     published |-> Str("Fri, 30 Oct 2026 05:30:00 +0000")]

\* a title whose page path, news/<date>-x/../../index.html, names index.html
EntryIndex ==
    [title |-> Str("x/../../index"), link |-> Str("https://example.org/f"),
     description |-> Str("Sommaire"),
     published |-> Str("Fri, 30 Oct 2026 05:40:00 +0000")]

\* a title with a decimal reference of one digit more than int() converts
EntryLongRef ==
    [title |-> Str("Crise &#")
                 \o SubSeq([i \in 1..(MaxStrDigits + 1) |-> Code("9")],
                           1, MaxStrDigits + 1)
                 \o Str(";"),
     link |-> Str("https://example.org/g"),
     published |-> Str("Fri, 30 Oct 2026 05:50:00 +0000")]

\* what feedparser.parse(FEED_URL) can return
Feeds ==
    { [entries |-> <<>>],
      [entries |-> <<EntryPlain>>],
      [entries |-> <<EntrySlash, EntryPlain>>],
      [entries |-> <<EntryBare>>],
      [entries |-> <<EntryEmptyTitle>>],
      [entries |-> <<EntryMarkup>>],
      [entries |-> <<EntryBelow>>],
      [entries |-> <<EntryIndex>>],
      [entries |-> <<EntryLongRef>>] }

IndexWithMain ==
    Str("<html>\n<body>\n<main>\n  <h1>Site</h1>\n</main>\n</body>\n</html>\n")

IndexWithoutMain ==
    Str("<html>\n<body>\n  <h1>Site</h1>\n</body>\n</html>\n")

IndexWithSection ==
    Str("<html>\n<body>\n<main>\n  <section id=\"derniers-articles\">\n    <ul>\n"
        \o "    <li><a href=\"news/old.html\">Ancien</a></li>\n    </ul>\n"
        \o "  </section>\n</main>\n</body>\n</html>\n")

\* a section whose list was never opened
IndexWithBareSection ==
    Str("<html>\n<body>\n<section id=\"derniers-articles\">\n</section>\n"
        \o "</body>\n</html>")

Indexes == {IndexWithMain, IndexWithoutMain, IndexWithSection, IndexWithBareSection}

\* the directories from the root down to the working directory
CheckoutDirs == {Root, Home, Cwd}

IndexPath == Child(Cwd, INDEX_FILE)

NewsPath == Child(Cwd, NEWS_DIR)

\* the file systems a first run can find
InitialDirs ==
    { [dirs |-> CheckoutDirs, files |-> <<>>],
      [dirs |-> CheckoutDirs \cup {NewsPath},
       files |-> [k \in {IndexPath} |-> IndexWithMain]] }
    \cup { [dirs |-> CheckoutDirs, files |-> [k \in {IndexPath} |-> content]] :
             content \in Indexes \ {IndexWithMain} }

----------------------------------------------------------------------------
(* The state machine *)

\* the entry the run r adds to index.html: none when the feed is empty, when
\* the run raises or when update_index finds no index.html, which it neither
\* creates nor removes
EntryAdded(r) ==
    IF r.article = None \/ r.exc # "none" \/ ~exists(r.fs, INDEX_FILE)
    THEN <<>>
    ELSE <<ArticleLink(r.filename, r.article.title)>>

Init ==
    /\ fs \in InitialDirs
    /\ today = 0
    /\ out = Empty
    /\ exc = "none"
    /\ feed = [entries |-> <<>>]
    /\ lastArticle = None
    /\ lastFilename = None
    /\ pre = fs
    /\ linked = <<>>
    /\ runs = 0

\* one scheduled run of the script
Main ==
    /\ runs < MaxRuns
    /\ \E parsed \in Feeds, now \in ClockReadings(today) :
          \E r \in {main(fs, parsed, now)} :
              /\ fs' = r.fs
              /\ out' = r.out
              /\ exc' = r.exc
              /\ feed' = parsed
              /\ lastArticle' = r.article
              /\ lastFilename' = r.filename
              /\ linked' = linked \o EntryAdded(r)
    /\ pre' = fs
    /\ runs' = runs + 1
    /\ UNCHANGED today

\* midnight passes between two runs
NextDay ==
    /\ today + 1 < MaxDays
    /\ today' = today + 1
    /\ UNCHANGED <<fs, out, exc, feed, lastArticle, lastFilename, pre, linked, runs>>

Next == Main \/ NextDay

Spec == Init /\ [][Next]_vars

----------------------------------------------------------------------------
(* What the last run was given and what it computed *)

\* the last run had a feed with at least one entry
FedLastRun == runs > 0 /\ feed.entries # <<>>

\* index.html was there when the last run started
HadIndex == isfile(pre, INDEX_FILE)

\* the last run returned from main() instead of raising
Returned == exc = "none"

\* fetch_latest_entry returned an article to the last run
Fetched == FedLastRun /\ lastArticle # None

NewsSlash == Str("news/")

\* d holds at news/<filename> the page rendered from article
PageWritten(d, article, filename) ==
    Bind(Lookup(d, NewsSlash \o filename), LAMBDA r :
        /\ r.err = "none"
        /\ r.key \in DOMAIN d.files
        /\ d.files[r.key] = ArticlePage(article))

EntryToHref == Str("<li><a href=\"news/")

EntryToTitle == Str("\">")

EntryToEnd == Str("</a></li>")

\* the list entry that links news/<filename> under the title of article
EntryFor(article, filename) ==
    EntryToHref \o filename \o EntryToTitle \o article.title \o EntryToEnd

\* index.html of d holds the list entry of article
IndexLinksPage(d, article, filename) ==
    /\ isfile(d, INDEX_FILE)
    /\ Bind(EntryFor(article, filename), LAMBDA entry :
          Contains(FileText(d, INDEX_FILE), entry))

\* the page of the last run lies in the directory news/ or below it
PageInNews ==
    StartsAt(Lookup(fs, NewsSlash \o lastFilename).key, 1, NewsPath \o Slash)

ItemMarker == Str("<li>")

\* number of list entries in content
EntryCount(content) == Cardinality(Occurrences(content, ItemMarker))

----------------------------------------------------------------------------
(* C1 *)

\* C1: a run that finds the feed empty prints the 'Aucun article' message and
\* changes nothing: no file is created or overwritten under news/ and
\* index.html keeps its content.
EmptyFeedIsNoOp ==
    (runs > 0 /\ feed.entries = <<>>) =>
        /\ fs = pre
        /\ Returned
        /\ out = NoArticle

\* an empty feed met after a run that published an article
EmptyFeedAfterArticle ==
    /\ runs > 1
    /\ feed.entries = <<>>
    /\ isfile(fs, INDEX_FILE)
    /\ Cardinality(DOMAIN fs.files) > 1
    /\ out = NoArticle

----------------------------------------------------------------------------
(* C2 *)

\* the page of the last run is at news/<filename> with the content the run
\* rendered, and index.html links it under its title
PageLinked ==
    /\ Fetched
    /\ PageWritten(fs, lastArticle, lastFilename)
    /\ IndexLinksPage(fs, lastArticle, lastFilename)

\* C2: after every run with a non-empty feed and an existing index.html, the
\* page the run wrote exists at news/<filename> and index.html holds a list
\* entry whose href is news/<filename> and whose text is the title.
EveryRunLinksItsPage == (FedLastRun /\ HadIndex) => PageLinked

----------------------------------------------------------------------------
(* C3 *)

\* C3: newer articles appear first: after a run that added an entry, that
\* entry precedes every entry added by an earlier run.
NewestEntryFirst ==
    (FedLastRun /\ HadIndex /\ Returned) =>
        \A i \in 1..(Len(linked) - 1) :
            linked[i] # linked[Len(linked)] =>
                Find(FileText(fs, INDEX_FILE), linked[Len(linked)])
                    < Find(FileText(fs, INDEX_FILE), linked[i])

----------------------------------------------------------------------------
(* C4 *)

\* C4: when index.html does not exist and the feed is not empty, the run
\* creates the index: afterwards index.html exists and links the new article.
MissingIndexIsCreated ==
    (FedLastRun /\ ~HadIndex /\ Returned) =>
        IndexLinksPage(fs, lastArticle, lastFilename)

----------------------------------------------------------------------------
(* C5 *)

\* C5: when news/ does not exist and the feed is not empty, the run does not
\* fail: the directory is created and the page is written into it.
MissingNewsDirIsCreated ==
    (FedLastRun /\ ~exists(pre, NEWS_DIR)) =>
        /\ Returned
        /\ isdir(fs, NEWS_DIR)
        /\ PageWritten(fs, lastArticle, lastFilename)
        /\ PageInNews

----------------------------------------------------------------------------
(* C6 *)

\* the run found an index.html without the 'derniers-articles' section
HadNoSection ==
    /\ HadIndex
    /\ ~Contains(FileText(pre, INDEX_FILE), SectionMarker)

BodyEndMarker == Str("</body>")

\* the six lines of the section stand at lines p..p+5 and a line holding the
\* closing body tag follows them
SectionBeforeBodyEnd(lines, p) ==
    /\ SubSeq(lines, p, p + 5) = SectionHtml(linked[Len(linked)])
    /\ \E b \in (p + 6)..Len(lines) : Contains(lines[b], BodyEndMarker)

\* C6: when index.html has no 'derniers-articles' section, the six lines of
\* the new section are placed before the line holding the closing body tag.
NewSectionBeforeBodyEnd ==
    (FedLastRun /\ HadNoSection /\ Returned) =>
        Bind(readlines(FileText(fs, INDEX_FILE)), LAMBDA lines :
            \E p \in 1..(Len(lines) - 5) : SectionBeforeBodyEnd(lines, p))

----------------------------------------------------------------------------
(* C7 *)

\* the last run added one list entry to index.html, and news/ holds the one
\* page of its filename, created or overwritten by the run
AddedOneEntry ==
    /\ Fetched
    /\ EntryCount(FileText(fs, INDEX_FILE)) = EntryCount(FileText(pre, INDEX_FILE)) + 1
    /\ Bind(EntryFor(lastArticle, lastFilename), LAMBDA entry :
          Cardinality(Occurrences(FileText(fs, INDEX_FILE), entry))
            = Cardinality(Occurrences(FileText(pre, INDEX_FILE), entry)) + 1)
    /\ PageWritten(fs, lastArticle, lastFilename)
    /\ PageInNews
    /\ Bind(Lookup(fs, NewsSlash \o lastFilename), LAMBDA page :
          DOMAIN fs.files = DOMAIN pre.files \cup {page.key})

\* C7: there is no deduplication: every run with a non-empty feed and an
\* existing index.html adds exactly one list entry, even for an article an
\* earlier run already linked, so that n such runs add n entries, while
\* news/ holds a single page for the filename, overwritten when it was there.
EveryRunAddsOneEntry == (FedLastRun /\ HadIndex) => AddedOneEntry

----------------------------------------------------------------------------
(* C8 *)

\* C8: the title fetch_latest_entry returns is never empty: an entry whose
\* title is absent or empty gets the default 'Article sans titre'.
TitleNeverEmpty ==
    Fetched =>
        /\ lastArticle.title # Empty
        /\ EntryGet(feed.entries[1], "title", Empty) = Empty =>
              lastArticle.title = DefaultTitle

====
